---- MODULE Spec2Model ----
(***************************************************************************)
(* Model of the natural-language-to-SQL chat assistant:                    *)
(*   - the SQL extractor            (src/src/app.py, src/ui.py)            *)
(*   - the Athena query client      (src/src/services/athena.py)           *)
(*   - the conversation turn        (src/src/app.py run_app, src/ui.py)    *)
(*   - records_from_table, as_text  (src/src/ui/helpers.py, src/ui.py)     *)
(*   - the chart builder            (src/src/app.py, src/ui.py)            *)
(*   - the catalog tools            (src/src/services/athena.py)           *)
(*   - the settings and their sync  (src/src/settings.py, src/ui.py)       *)
(* Texts are sequences of tokens; every token stands for a fixed run of    *)
(* characters (FENCE is the run of three backticks).                       *)
(***************************************************************************)
EXTENDS Integers, Sequences, FiniteSets, TLC

VARIABLES
    \* ---- SQL extractor harness
    ex_pc,          \* "typing" while the input text is built, "done" after the call
    raw_text,       \* the raw model output handed to _extract_sql
    sql_out,        \* what _extract_sql returned
    \* ---- process state shared by the query client
    environ,        \* os.environ: name -> value, Unset when absent
    client_cache,   \* _CLIENT_CACHE: the regions that have a cached client pair
    creations,      \* region -> how many client pairs boto3 has built for it
    \* ---- one run_athena_query call
    q_pc,           \* position inside run_athena_query / _wait_for_query
    q_sql,          \* the sql argument
    q_db,           \* the database argument
    q_region,       \* the region_name argument
    q_max_rows,     \* the max_rows argument
    q_lookups,      \* calls of _athena_clients made by this call
    q_started,      \* calls of start_query_execution made by this call
    exec_state,     \* the state of the query execution inside the service
    w_timeout,      \* timeout_s of the running _wait_for_query
    elapsed,        \* time.time() - start, in half seconds
    w_state,        \* the state the last poll returned
    w_reason,       \* StateChangeReason of the last poll's response
    w_poll_late,    \* the last poll was made after timeout_s had elapsed
    w_checked_late, \* a deadline test has seen elapsed > timeout_s
    cols,           \* local cols
    rows,           \* local rows
    count,          \* local count
    first_page,     \* local first_page
    delivered,      \* the result pages the service has delivered, in order
    rows_seen,      \* how many delivered rows the row loop has looked at
    q_outcome,      \* how the call ended: returned dictionary or raised exception
    \* ---- the chat session (st.session_state, the sidebar, the running script)
    entry,          \* which entry point runs: "app" (run_app) or "ui" (src/ui.py)
    settings,       \* database, explain_mode, display_cost as the script reads them
    messages,       \* st.session_state.messages
    st_error,       \* the text st.error showed in the latest run, <<>> when none
    t_pc,           \* stage of the turn: awaiting_input, generating_sql, ...
    prompt,         \* the submitted prompt
    want_chart,     \* chart_requested / want_chart
    in_texts,       \* instructions / in_texts
    out_texts,      \* outputs / out_texts
    sql_text_full,  \* <<text>> once the agent response of this turn is normalized
    sql_to_run,     \* the extracted SQL of this turn
    sql_holder,     \* src/ui.py: holder shared with _worker_sql
    query_holder,   \* src/ui.py: holder shared with _worker_query
    explain_holder, \* src/ui.py: holder shared with _worker_explain
    worker,         \* src/ui.py: the running worker thread and its position
    res_table,      \* src/ui.py: cols and rows kept while the explanation runs
    chart_spec,     \* src/ui.py: chart_spec kept while the explanation runs
    agent_calls,    \* agent invocations of this turn
    query_calls,    \* run_athena_query invocations of this turn
    query_raised,   \* the message of the exception the query client raised, if any
    query_sql,      \* the sql argument of the run_athena_query call of this turn
    \* ---- records_from_table harness
    rec_pc,         \* "building" while the table is built, "done" after the call
    rec_columns,    \* the columns argument
    rec_rows,       \* the rows argument
    rec_records,    \* what records_from_table returned
    rec_message,    \* the assistant message built from the table
    \* ---- _build_chart harness
    ch_pc,          \* "building" while the records are built, "done" after the call
    ch_records,     \* the records argument
    ch_y,           \* local y_field when the call ends
    ch_x,           \* local x_field when the call ends
    ch_spec,        \* what _build_chart returned: <<>> is None, <<spec>> a spec
    \* ---- as_text harness
    nv_pc,          \* "building" while the value is built, "done" after the calls
    nv_fn,          \* the normalizer called: "app" (as_text) or "ui" (_as_text)
    nv_value,       \* the obj argument
    nv_steps,       \* how many building steps the value has taken
    nv_outcome,     \* how the call on the value ended
    nv_again,       \* how normalizing the outcome once more ended
    \* ---- one call of a catalog tool (list_athena_tables, get_athena_table_schema)
    cat_pc,         \* position inside the tool
    cat_fn,         \* the tool called
    cat_db,         \* the database argument
    cat_region,     \* the region_name argument
    cat_lookups,    \* calls of _athena_clients made by this call
    cat_remote,     \* requests this call has sent to the catalog service
    cat_pages,      \* the get_tables pages the service has delivered, in order
    cat_tables,     \* local tables
    cat_table,      \* the get_table response
    cat_failed,     \* the failure of the remote call, <<>> when none
    cat_outcome,    \* how the call ended
    \* ---- the configuration of the process and its sync into os.environ
    cfg_pc,         \* "off", "start" of the process, "syncing", "synced"
    cfg_entry,      \* the entry point: "app" (src/src/app.py) or "ui" (src/ui.py)
    cfg_environ,    \* os.environ restricted to the six setting variables
    cfg_before,     \* os.environ as it was when the sync began
    cfg_values,     \* the effective settings: AthenaSettings, or the sidebar fields
    cfg_step        \* how many set_env_var calls of the sync are done

extractVars == <<ex_pc, raw_text, sql_out>>

processVars == <<environ, client_cache, creations>>

callVars == <<q_pc, q_sql, q_db, q_region, q_max_rows, q_lookups, q_started, q_outcome>>

waitVars == <<exec_state, w_timeout, elapsed, w_state, w_reason, w_poll_late, w_checked_late>>

fetchVars == <<cols, rows, count, first_page, delivered, rows_seen>>

queryVars == <<processVars, callVars, waitVars, fetchVars>>

sessionVars == <<entry, settings, messages, st_error>>

localVars == <<t_pc, prompt, want_chart, in_texts, out_texts, sql_text_full, sql_to_run>>

threadVars == <<sql_holder, query_holder, explain_holder, worker, res_table, chart_spec>>

countVars == <<agent_calls, query_calls, query_raised, query_sql>>

turnVars == <<sessionVars, localVars, threadVars, countVars>>

recVars == <<rec_pc, rec_columns, rec_rows, rec_records, rec_message>>

chartVars == <<ch_pc, ch_records, ch_y, ch_x, ch_spec>>

normVars == <<nv_pc, nv_fn, nv_value, nv_steps, nv_outcome, nv_again>>

catVars == <<cat_pc, cat_fn, cat_db, cat_region, cat_lookups, cat_remote, cat_pages,
             cat_tables, cat_table, cat_failed, cat_outcome>>

cfgVars == <<cfg_pc, cfg_entry, cfg_environ, cfg_before, cfg_values, cfg_step>>

vars == <<extractVars, queryVars, turnVars, recVars, chartVars, normVars, catVars,
          cfgVars>>

\* what the steps of one component leave alone
notExtract == <<queryVars, turnVars, recVars, chartVars, normVars, catVars, cfgVars>>
notQuery == <<extractVars, turnVars, recVars, chartVars, normVars, catVars, cfgVars>>
notTurn == <<extractVars, queryVars, recVars, chartVars, normVars, catVars, cfgVars>>
notRec == <<extractVars, queryVars, turnVars, chartVars, normVars, catVars, cfgVars>>
notChart == <<extractVars, queryVars, turnVars, recVars, normVars, catVars, cfgVars>>
notNorm == <<extractVars, queryVars, turnVars, recVars, chartVars, catVars, cfgVars>>
\* the catalog tools share _athena_clients and os.environ with the query client
notCat == <<extractVars, callVars, waitVars, fetchVars, turnVars, recVars, chartVars,
            normVars, cfgVars>>
notCfg == <<extractVars, queryVars, turnVars, recVars, chartVars, normVars, catVars>>

-----------------------------------------------------------------------------
(* Bounds *)

MaxTextLen == 6      \* tokens in a raw model output
MaxCallTime == 1     \* half seconds a status call may take
MaxJitter == 1       \* half seconds a sleep may overrun
MaxRowsArg == 2      \* largest max_rows argument tried
MaxPages == 2        \* result pages the service delivers at most
MaxPageRows == 2     \* data rows on one result page at most
MaxTurns == 2        \* prompts answered before the history is full
MaxCols == 2         \* columns of a table handed to records_from_table
MaxTableRows == 2    \* rows of a table handed to records_from_table
MaxFields == 3       \* keys of the first record handed to _build_chart
MaxChartRecords == 2 \* records handed to _build_chart
MaxSteps == 3        \* building steps of a value handed to as_text
MaxSchemaCols == 2   \* storage columns, and partition keys, of a table at most
MaxCatalogPages == 2 \* get_tables pages the catalog delivers at most
MaxPageTables == 2   \* tables on one get_tables page at most

-----------------------------------------------------------------------------
(* Generic helpers *)

Min(S) == CHOOSE x \in S : \A y \in S : x <= y

-----------------------------------------------------------------------------
(* Text: tokens, character classes, str.strip *)

Fence == "FENCE"

NL == "\n"
NL2 == "\n\n"

Tokens == {Fence, "sql", "SQL", "select", "SELECT", " ", "x"}

\* \s of the regular expressions, and the characters str.strip removes
IsSpace(c) == c \in {" ", NL, NL2}

\* the tokens made of word characters only (\w), which decide \b
IsWord(c) == c \in {"sql", "SQL", "select", "SELECT", "x"}

\* re.IGNORECASE: letters compare equal up to case
Lower(c) ==
    IF c = "SQL" THEN "sql"
    ELSE IF c = "SELECT" THEN "select"
    ELSE c

RECURSIVE LStrip(_)
LStrip(s) == IF s # <<>> /\ IsSpace(Head(s)) THEN LStrip(Tail(s)) ELSE s

RECURSIVE RStrip(_)
RStrip(s) ==
    IF s # <<>> /\ IsSpace(s[Len(s)]) THEN RStrip(SubSeq(s, 1, Len(s) - 1)) ELSE s

\* str.strip()
Strip(s) == RStrip(LStrip(s))

-----------------------------------------------------------------------------
(* _extract_sql: r"```sql\s*([\s\S]*?)\s*```" then r"\bselect\b[\s\S]+"     *)

\* greedy \s* starting at position p: the first position that is not a space
RECURSIVE SkipSpace(_, _)
SkipSpace(t, p) == IF p <= Len(t) /\ IsSpace(t[p]) THEN SkipSpace(t, p + 1) ELSE p

\* the tail of the fenced pattern, \s*```, matches at position p
TailMatchesAt(t, p) ==
    LET q == SkipSpace(t, p) IN q <= Len(t) /\ t[q] = Fence

\* the whole fenced pattern matches with its opening marker at position i
FenceMatchAt(t, i) ==
    /\ i + 1 <= Len(t)
    /\ t[i] = Fence
    /\ Lower(t[i + 1]) = "sql"
    /\ \E j \in (i + 2)..Len(t) : t[j] = Fence

\* lazy [\s\S]*? from position p: the first end position at which the tail matches
RECURSIVE LazyGroupEnd(_, _)
LazyGroupEnd(t, p) == IF TailMatchesAt(t, p) THEN p ELSE LazyGroupEnd(t, p + 1)

\* A variant with a greedy group: it runs to the last closing fence.
GreedyGroup(t, i) ==
    LET a == SkipSpace(t, i + 2)
        last == CHOOSE j \in (i + 2)..Len(t) :
                    t[j] = Fence /\ \A k \in (j + 1)..Len(t) : t[k] # Fence
    IN  SubSeq(t, a, last - 1)

\* match.group(1) of the fenced pattern matched at position i
FenceGroup(t, i) ==
    LET a == SkipSpace(t, i + 2)
        e == LazyGroupEnd(t, a)
    IN  SubSeq(t, a, e - 1)

\* A variant of the fallback pattern without the trailing [\s\S]+ requirement.
SelectMatchAtNoTail(t, i) ==
    /\ Lower(t[i]) = "select"
    /\ (i = 1 \/ ~IsWord(t[i - 1]))
    /\ (i = Len(t) \/ ~IsWord(t[i + 1]))

\* the fallback pattern \bselect\b[\s\S]+ matches at position i
SelectMatchAt(t, i) ==
    /\ Lower(t[i]) = "select"
    /\ (i = 1 \/ ~IsWord(t[i - 1]))
    /\ i < Len(t)
    /\ ~IsWord(t[i + 1])

\* _extract_sql(raw_text); re.search takes the leftmost match
\* A variant that falls back to the select search when the block is empty.
ExtractSqlBlockOrSelect(t) ==
    LET fenced == {i \in 1..Len(t) : FenceMatchAt(t, i)}
        sel == {i \in 1..Len(t) : SelectMatchAt(t, i)}
    IN  IF fenced # {} /\ Strip(FenceGroup(t, Min(fenced))) # <<>>
        THEN Strip(FenceGroup(t, Min(fenced)))
        ELSE IF sel # {} THEN Strip(SubSeq(t, Min(sel), Len(t)))
        ELSE <<>>

ExtractSql(t) ==
    LET fenced == {i \in 1..Len(t) : FenceMatchAt(t, i)}
        sel == {i \in 1..Len(t) : SelectMatchAt(t, i)}
    IN  IF fenced # {} THEN Strip(FenceGroup(t, Min(fenced)))
        ELSE IF sel # {} THEN Strip(SubSeq(t, Min(sel), Len(t)))
        ELSE <<>>

-----------------------------------------------------------------------------
(* Python values: None / absent keys, truthiness, the "or" chain *)

Unset == "<unset>"

Truthy(v) == v # Unset /\ v # ""

\* a or b
OrElse(a, b) == IF Truthy(a) THEN a ELSE b

EnvNames == {"AWS_REGION", "AWS_DEFAULT_REGION", "ATHENA_DATABASE"}

\* os.getenv(name)
Getenv(env, name) == env[name]

\* the environments a query call is tried under
QueryEnvs ==
    { [n \in EnvNames |-> Unset],
      [n \in EnvNames |->
          IF n = "AWS_REGION" THEN "us-east-1"
          ELSE IF n = "ATHENA_DATABASE" THEN "db" ELSE Unset],
      [n \in EnvNames |->
          IF n = "AWS_REGION" THEN ""
          ELSE IF n = "AWS_DEFAULT_REGION" THEN "us-east-1" ELSE Unset] }

AllRegions == {"us-east-1", "eu-west-1"}
RegionArgs == {Unset, "eu-west-1"}
DatabaseArgs == {Unset, "db"}

\* sql arguments: "", a statement, a falsy non-string (None), a truthy non-string
SqlArgs ==
    { [is_str |-> TRUE,  text |-> <<>>],
      [is_str |-> TRUE,  text |-> <<"select", " ", "x">>],
      [is_str |-> FALSE, text |-> <<>>],
      [is_str |-> FALSE, text |-> <<"x">>] }

-----------------------------------------------------------------------------
(* How a call ends *)

QueryId == "qid"

NoOutcome ==
    [kind |-> "none", exc |-> "", msg |-> <<>>, columns |-> <<>>, rows |-> <<>>]

Raised(type, msg) ==
    [kind |-> "raised", exc |-> type, msg |-> msg, columns |-> <<>>, rows |-> <<>>]

Returned(cs, rs) ==
    [kind |-> "returned", exc |-> "", msg |-> <<>>, columns |-> cs, rows |-> rs]

\* what a remote call can fail with: a botocore ClientError, or anything else
RemoteErrors ==
    { [type |-> "ClientError", msg |-> <<"AccessDenied">>],
      [type |-> "EndpointConnectionError", msg |-> <<"unreachable">>],
      [type |-> "MemoryError", msg |-> <<>>] }

-----------------------------------------------------------------------------
(* run_athena_query: argument checks and client lookup *)

\* A variant that only tests for emptiness.
SqlMissingOnlyEmpty(sql) == sql.text = <<>>

\* not sql or not isinstance(sql, str)
SqlMissing(sql) == sql.text = <<>> \/ ~sql.is_str

\* database or os.getenv("ATHENA_DATABASE")
ResolveDatabase(env, database) == OrElse(database, Getenv(env, "ATHENA_DATABASE"))

\* region_name or os.getenv("AWS_REGION") or os.getenv("AWS_DEFAULT_REGION")
ResolveRegion(env, region_name) ==
    OrElse(region_name, OrElse(Getenv(env, "AWS_REGION"), Getenv(env, "AWS_DEFAULT_REGION")))

\* a lookup that never finds the cached pair
CacheMissAlways(cache, region) == region \in AllRegions

\* _CLIENT_CACHE.get(cache_key) is None
CacheMiss(cache, region) == region \notin cache

-----------------------------------------------------------------------------
(* _wait_for_query: times are in half seconds *)

TimeoutS == 240     \* timeout_s = 120
PollS == 3          \* poll_s = 1.5

ExecStates == {"QUEUED", "RUNNING", "SUCCEEDED", "FAILED", "CANCELLED"}

\* A variant that also takes RUNNING for an end state.
IsTerminalOrRunning(state) == state \in {"SUCCEEDED", "FAILED", "CANCELLED", "RUNNING"}

\* state in ("SUCCEEDED", "FAILED", "CANCELLED")
IsTerminal(state) == state \in {"SUCCEEDED", "FAILED", "CANCELLED"}

\* A variant that takes the deadline itself for passed.
DeadlineReached(e, timeout) == e >= timeout

\* time.time() - start > timeout_s
DeadlinePassed(e, timeout) == e > timeout

\* the states the service may report at the next poll
ExecSucc(s) ==
    IF s = "QUEUED" THEN ExecStates
    ELSE IF s = "RUNNING" THEN ExecStates \ {"QUEUED"}
    ELSE {s}

\* the StateChangeReason the service may attach to a state (Unset: no such key)
ReasonsFor(s) ==
    IF s \in {"FAILED", "CANCELLED"} THEN {Unset, "syntax error"} ELSE {Unset}

\* A variant that lets a cancelled query through.
StateIsFailureOnlyFailed(state) == state = "FAILED"

\* state != "SUCCEEDED"
StateIsFailure(state) == state # "SUCCEEDED"

\* Status.get("StateChangeReason", "Unknown error")
ReasonOrDefault(reason) == IF reason = Unset THEN "Unknown error" ELSE reason

\* f"Athena query {state}: {reason}"
FailureMessage(state, reason) ==
    <<"Athena query ", state, ": ", ReasonOrDefault(reason)>>

\* f"Athena query timed out after {timeout_s}s: {query_execution_id}"
TimeoutMessage == <<"Athena query timed out after ", "120", "s: ", QueryId>>

-----------------------------------------------------------------------------
(* run_athena_query: result pages *)

Null == "<null>"    \* a cell without VarCharValue

ColumnLists == {<<"c">>, <<"c", "d">>}

\* the rows the service may deliver for a column list: one equal to the column
\* names, one of plain values, one of NULL cells
DataRowsOf(cs) ==
    {cs, [i \in 1..Len(cs) |-> "a"], [i \in 1..Len(cs) |-> Null]}

SeqsUpTo(S, n) == UNION {[1..k -> S] : k \in 0..n}

\* the rows of a page: the first page starts with the header row
PageRowsChoices(cs, first) ==
    {IF first THEN <<cs>> \o d ELSE d : d \in SeqsUpTo(DataRowsOf(cs), MaxPageRows)}

\* c.get("VarCharValue", "")
CellValue(c) == IF c = Null THEN "" ELSE c

\* [c.get("VarCharValue", "") for c in row.get("Data", [])]
RowData(row) == [i \in 1..Len(row) |-> CellValue(row[i])]

\* data == cols
IsHeader(data, cs) == data = cs

\* count >= max_rows
LimitReached(n, max_rows) == n >= max_rows

\* the inner loop, for row in result_set.get("Rows", []), over the rows todo;
\* acc holds rows, count and the number of rows looked at
RECURSIVE RowLoop(_, _, _, _)
RowLoop(todo, cs, acc, max_rows) ==
    IF todo = <<>> THEN acc
    ELSE LET data == RowData(Head(todo))
             looked == [acc EXCEPT !.seen = @ + 1]
         IN  IF IsHeader(data, cs)
             THEN RowLoop(Tail(todo), cs, looked, max_rows)
             ELSE LET kept == [looked EXCEPT !.rows = Append(@, data), !.count = @ + 1]
                  IN  IF LimitReached(kept.count, max_rows)
                      THEN kept
                      ELSE RowLoop(Tail(todo), cs, kept, max_rows)

-----------------------------------------------------------------------------
(* Agent responses as Python values, and the response normalizer as_text *)

PyNone == [tag |-> "none", text |-> <<>>, keys |-> <<>>, items |-> <<>>]

PyStr(t) == [tag |-> "str", text |-> t, keys |-> <<>>, items |-> <<>>]

\* a dict with the keys ks, in insertion order, and the values vs
PyDict(ks, vs) == [tag |-> "dict", text |-> <<>>, keys |-> ks, items |-> vs]

PyList(vs) == [tag |-> "list", text |-> <<>>, keys |-> <<>>, items |-> vs]

\* any other object, with the attributes ks holding the values vs
PyObject(ks, vs) == [tag |-> "object", text |-> <<>>, keys |-> ks, items |-> vs]

\* an object like PyObject whose __str__ raises
PyUnprintable(ks, vs) == [tag |-> "unprintable", text |-> <<>>, keys |-> ks, items |-> vs]

\* key in obj / hasattr(obj, key)
HasKey(obj, k) == \E i \in 1..Len(obj.keys) : obj.keys[i] = k

\* obj[key] / getattr(obj, key)
Lookup(obj, k) == obj.items[CHOOSE i \in 1..Len(obj.keys) : obj.keys[i] = k]

TextKeys == <<"text", "content", "message", "output", "response">>

\* the number of characters a token stands for
CharLen(c) ==
    IF c = Fence THEN 3
    ELSE IF c = "<sql instruction of run_app>" THEN 2806
    ELSE IF c = "<sql instruction of ui.py>" THEN 2898
    ELSE IF c = "<explain instruction head>" THEN 190
    ELSE Len(c)

\* len(text)
RECURSIVE TextLen(_)
TextLen(t) == IF t = <<>> THEN 0 ELSE CharLen(Head(t)) + TextLen(Tail(t))

RECURSIVE SumLen(_)
SumLen(parts) == IF parts = <<>> THEN 0 ELSE TextLen(Head(parts)) + SumLen(Tail(parts))

\* separator.join(parts)
RECURSIVE Join(_, _)
Join(parts, sep) ==
    IF parts = <<>> THEN <<>>
    ELSE IF Len(parts) = 1 THEN parts[1]
    ELSE parts[1] \o sep \o Join(Tail(parts), sep)

NonEmpty(t) == t # <<>>

\* how json.dumps writes a character run inside a string
JsonEscape(c) == IF c = NL THEN "\\n" ELSE IF c = NL2 THEN "\\n\\n" ELSE c

\* json.dumps can serialize the value
RECURSIVE Serializable(_)
Serializable(v) ==
    /\ v.tag \notin {"object", "unprintable"}
    /\ \A i \in 1..Len(v.items) : Serializable(v.items[i])

\* json.dumps(obj, ensure_ascii=False) of a serializable value
RECURSIVE JsonDumps(_)
JsonDumps(v) ==
    IF v.tag = "none" THEN <<"null">>
    ELSE IF v.tag = "str"
    THEN <<"\"">> \o [i \in 1..Len(v.text) |-> JsonEscape(v.text[i])] \o <<"\"">>
    ELSE IF v.tag = "list"
    THEN <<"[">> \o Join([i \in 1..Len(v.items) |-> JsonDumps(v.items[i])], <<", ">>)
                 \o <<"]">>
    ELSE <<"{">> \o Join([i \in 1..Len(v.items) |->
                             <<"\"", v.keys[i], "\"", ": ">> \o JsonDumps(v.items[i])],
                         <<", ">>)
                 \o <<"}">>

\* str(obj) of a value that has no better text; for an object whose __str__
\* raises this is the "" that _as_text of src/ui.py returns in its place
StrOf(obj) ==
    IF obj.tag = "dict" THEN <<"<dict repr>">>
    ELSE IF obj.tag = "unprintable" THEN <<>>
    ELSE <<"<object repr>">>

\* A variant that returns a string the way repr() shows it.
PlainTextQuoted(obj) == <<"'">> \o obj.text \o <<"'">>

\* if isinstance(obj, str): return obj
PlainText(obj) == obj.text

\* A variant that takes the first of the five keys in the mapping's own order.
TextKeyByInsertion(obj) ==
    obj.keys[Min({i \in 1..Len(obj.keys) : \E j \in 1..Len(TextKeys) : obj.keys[i] = TextKeys[j]})]

\* for key in ("text", "content", "message", "output", "response"): if key in obj
TextKeyOf(obj) == TextKeys[Min({i \in 1..Len(TextKeys) : HasKey(obj, TextKeys[i])})]

\* the thresholds of the density heuristic
DenseOver == 20
DenseBelow == 3

\* A variant that never joins densely.
SeparatorAlwaysBlank(parts) == <<NL2>>

\* "" if avg_len < 3 and len(parts) > 20 else "\n\n"
Separator(parts) ==
    IF SumLen(parts) < DenseBelow * Len(parts) /\ Len(parts) > DenseOver THEN <<>> ELSE <<NL2>>

\* as_text(obj) of src/src/ui/helpers.py, _as_text(obj) of src/ui.py: the text
\* returned when the call returns
RECURSIVE AsText(_)
AsText(obj) ==
    IF obj.tag = "none" THEN <<>>
    ELSE IF obj.tag = "str" THEN PlainText(obj)
    ELSE IF obj.tag = "dict"
    THEN IF HasKey(obj, "content") /\ HasKey(obj, "role")
         THEN AsText(Lookup(obj, "content"))
         ELSE IF \E i \in 1..Len(TextKeys) : HasKey(obj, TextKeys[i])
         THEN AsText(Lookup(obj, TextKeyOf(obj)))
         ELSE IF Serializable(obj) THEN JsonDumps(obj)
         ELSE StrOf(obj)
    ELSE IF obj.tag = "list"
    THEN LET flattened == [i \in 1..Len(obj.items) |-> AsText(obj.items[i])]
             parts == SelectSeq(flattened, NonEmpty)
         IN  IF parts = <<>> THEN <<>> ELSE Join(parts, Separator(parts))
    ELSE LET live == {i \in 1..Len(TextKeys) :
                         /\ HasKey(obj, TextKeys[i])
                         /\ Lookup(obj, TextKeys[i]).tag # "none"}
         IN  IF live = {} THEN StrOf(obj)
             ELSE LET value == Lookup(obj, TextKeys[Min(live)])
                  IN  IF value.tag = "str" THEN value.text ELSE AsText(value)

\* the call raises: the closing str(obj) of as_text is unguarded, that of
\* _as_text sits in a try block
RECURSIVE AsTextRaises(_, _)
AsTextRaises(fn, obj) ==
    IF obj.tag \in {"none", "str"} THEN FALSE
    ELSE IF obj.tag = "dict"
    THEN IF HasKey(obj, "content") /\ HasKey(obj, "role")
         THEN AsTextRaises(fn, Lookup(obj, "content"))
         ELSE IF \E i \in 1..Len(TextKeys) : HasKey(obj, TextKeys[i])
         THEN AsTextRaises(fn, Lookup(obj, TextKeyOf(obj)))
         ELSE FALSE
    ELSE IF obj.tag = "list"
    THEN \E i \in 1..Len(obj.items) : AsTextRaises(fn, obj.items[i])
    ELSE LET live == {i \in 1..Len(TextKeys) :
                         /\ HasKey(obj, TextKeys[i])
                         /\ Lookup(obj, TextKeys[i]).tag # "none"}
         IN  IF live = {} THEN fn = "app" /\ obj.tag = "unprintable"
             ELSE LET value == Lookup(obj, TextKeys[Min(live)])
                  IN  IF value.tag = "str" THEN FALSE ELSE AsTextRaises(fn, value)

\* how a call of the normalizer ends
TextReturned(t) == [kind |-> "returned", text |-> t]

TextRaised == [kind |-> "raised", text |-> <<>>]

NotCalled == [kind |-> "none", text |-> <<>>]

AsTextOutcome(fn, obj) ==
    IF AsTextRaises(fn, obj) THEN TextRaised ELSE TextReturned(AsText(obj))

\* the values the harness starts from and the ones it adds to a container
Leaves ==
    { PyNone, PyStr(<<>>), PyStr(<<"a">>), PyStr(<<"abc">>),
      PyObject(<<>>, <<>>), PyUnprintable(<<>>, <<>>) }

AddLeaves == {PyNone, PyStr(<<"ab">>)}

DictKeys == {"text", "content", "message", "output", "response", "role", "id"}

AttrNames == {"content", "id"}

\* list lengths around the threshold of the density heuristic
StreamLengths == {DenseOver, DenseOver + 1, DenseOver + 2}

\* the items of a list repeated in turn up to n elements
Repeated(items, n) == [i \in 1..n |-> items[((i - 1) % Len(items)) + 1]]

\* A variant that rounds the quarter of the length up.
EstimateTokensRoundedUp(text) == (TextLen(text) + 3) \div 4

\* estimate_tokens(text): max(1, int(len(text) / 4)), 0 for an empty text
EstimateTokens(text) ==
    IF text = <<>> THEN 0
    ELSE IF TextLen(text) \div 4 < 1 THEN 1 ELSE TextLen(text) \div 4

RECURSIVE SumTokens(_)
SumTokens(texts) ==
    IF texts = <<>> THEN 0 ELSE EstimateTokens(Head(texts)) + SumTokens(Tail(texts))

\* the llm_cost dictionary; costs are in millionths of a dollar, which is what
\* float(f"{(tokens / 1000.0) * 0.003:.6f}") keeps
LlmCost(instructions, outputs) ==
    [input_tokens |-> SumTokens(instructions),
     output_tokens |-> SumTokens(outputs),
     input_cost |-> SumTokens(instructions) * 3,
     output_cost |-> SumTokens(outputs) * 15]

-----------------------------------------------------------------------------
(* Prompts are sequences of characters; _wants_chart looks for keywords *)

Prompts == {<<"t", "o", "p">>, <<"P", "l", "o", "t">>}

LowerChar(c) == IF c = "P" THEN "p" ELSE c

\* prompt.lower()
LowerText(s) == [i \in 1..Len(s) |-> LowerChar(s[i])]

\* word in lowered
IsSubSeq(w, s) == \E i \in 1..(Len(s) - Len(w) + 1) : SubSeq(s, i, i + Len(w) - 1) = w

ChartKeywords ==
    { <<"c", "h", "a", "r", "t">>,
      <<"p", "l", "o", "t">>,
      <<"g", "r", "a", "p", "h">>,
      <<"v", "i", "s", "u", "a", "l", "i", "z", "e">>,
      <<"v", "i", "s", "u", "a", "l", "i", "s", "a", "t", "i", "o", "n">>,
      <<"v", "i", "s", "u", "a", "l", "i", "z", "a", "t", "i", "o", "n">>,
      <<"b", "a", "r">>,
      <<"l", "i", "n", "e">>,
      <<"s", "c", "a", "t", "t", "e", "r">>,
      <<"h", "i", "s", "t", "o", "g", "r", "a", "m">> }

\* A variant that asks for a chart whatever the prompt says.
WantsChartAlways(p) == TRUE

\* _wants_chart(prompt)
WantsChart(p) == \E w \in ChartKeywords : IsSubSeq(w, LowerText(p))

\* _build_sql_instruction(prompt): the fixed text, then the prompt
SqlInstruction(e, p) ==
    <<IF e = "app" THEN "<sql instruction of run_app>" ELSE "<sql instruction of ui.py>">> \o p

\* instruction_explain of src/ui.py
ExplainInstruction(sql) == <<"<explain instruction head>">> \o sql \o <<NL, Fence, NL>>

-----------------------------------------------------------------------------
(* records_from_table and _build_chart; a record is the sequence of its     *)
(* key/value pairs in insertion order, None is Unset                       *)

HasField(record, k) == \E i \in 1..Len(record) : record[i].key = k

\* record[key]
Field(record, k) == record[CHOOSE i \in 1..Len(record) : record[i].key = k].value

\* record[column] = value
RecordSet(record, k, v) ==
    IF HasField(record, k)
    THEN [i \in 1..Len(record) |->
             IF record[i].key = k THEN [key |-> k, value |-> v] ELSE record[i]]
    ELSE Append(record, [key |-> k, value |-> v])

\* A variant that reads every column from the first cell.
CellAtFirst(row, idx) == IF row # <<>> THEN row[1] ELSE Unset

\* row_list[idx] if idx < len(row_list) else None  (idx counts from 1 here)
CellAt(row, idx) == IF idx <= Len(row) THEN row[idx] ELSE Unset

\* for idx, column in enumerate(column_list): record[column] = ...
RECURSIVE RowRecord(_, _, _, _)
RowRecord(columns, row, idx, record) ==
    IF idx > Len(columns) THEN record
    ELSE RowRecord(columns, row, idx + 1, RecordSet(record, columns[idx], CellAt(row, idx)))

\* records_from_table(columns, rows), and the same loop inline in src/ui.py
RecordsFromTable(columns, rws) ==
    IF rws = <<>> THEN <<>>
    ELSE [r \in 1..Len(rws) |-> RowRecord(columns, rws[r], 1, <<>>)]

ColumnNames == {"region", "Sales"}

\* two families of cells, so that rows and positions can be told apart
CellOf(family, i) ==
    IF family = "A"
    THEN (IF i = 1 THEN "West" ELSE IF i = 2 THEN "98" ELSE "7")
    ELSE (IF i = 1 THEN "East" ELSE IF i = 2 THEN "12" ELSE "3")

\* float(value) succeeds
IsFloat(v) == v \in {"98", "7", "12", "3"}

\* key.lower()
KeyLower(k) == IF k = "Sales" THEN "sales" ELSE k

Preferred ==
    <<"sales", "amount", "revenue", "profit", "count", "order count", "quantity", "total">>

\* numeric_candidates: the positions of the keys whose value float() accepts
NumericCandidates(sample) == {i \in 1..Len(sample) : IsFloat(sample[i].value)}

\* A variant that looks at the numeric candidates before the preferred names.
YFieldNumericFirst(sample) ==
    LET numeric == NumericCandidates(sample)
        hits == {p \in 1..Len(Preferred) :
                    \E i \in 1..Len(sample) : KeyLower(sample[i].key) = Preferred[p]}
    IN  IF numeric # {} THEN sample[Min(numeric)].key
        ELSE IF hits # {}
        THEN sample[Min({i \in 1..Len(sample) :
                            KeyLower(sample[i].key) = Preferred[Min(hits)]})].key
        ELSE Unset

\* y_field: the first key equal to the first preferred name that has one,
\* else numeric_candidates[0], else None
YField(sample) ==
    LET numeric == NumericCandidates(sample)
        hits == {p \in 1..Len(Preferred) :
                    \E i \in 1..Len(sample) : KeyLower(sample[i].key) = Preferred[p]}
    IN  IF hits # {}
        THEN sample[Min({i \in 1..Len(sample) :
                            KeyLower(sample[i].key) = Preferred[Min(hits)]})].key
        ELSE IF numeric # {} THEN sample[Min(numeric)].key
        ELSE Unset

\* A variant that takes the first key whatever the y-field is.
XFieldFirstKey(sample, y_field) == IF sample # <<>> THEN sample[1].key ELSE Unset

\* x_field: the first key that differs from y_field, else None
XField(sample, y_field) ==
    LET others == {i \in 1..Len(sample) : sample[i].key # y_field}
    IN  IF others # {} THEN sample[Min(others)].key ELSE Unset

ChartSpec(records, x_field, y_field) ==
    [schema |-> "https://vega.github.io/schema/vega-lite/v5.json",
     data |-> [values |-> records],
     mark |-> "bar",
     encoding |-> [x |-> [field |-> x_field, type |-> "nominal", sort |-> "-y"],
                   y |-> [field |-> y_field, type |-> "quantitative"]]]

\* _build_chart(records), and the same steps inline in src/ui.py;
\* <<>> is None, <<spec>> is a spec
BuildChart(records) ==
    IF records = <<>> THEN <<>>
    ELSE LET sample == records[1]
             y_field == YField(sample)
             x_field == XField(sample, y_field)
         IN  IF ~Truthy(x_field) \/ ~Truthy(y_field) THEN <<>>
             ELSE <<ChartSpec(records, x_field, y_field)>>

\* the keys and the values a first record is built from
ChartKeys == {"region", "qty", "Sales", "count", "sales"}

ChartValues == {"West", "98", Unset}

\* a further record with the keys of the first one
FurtherRecord(sample) ==
    [i \in 1..Len(sample) |->
        [key |-> sample[i].key, value |-> IF IsFloat(sample[i].value) THEN "12" ELSE "East"]]

-----------------------------------------------------------------------------
(* The messages of the history *)

UserMessage(p) == [role |-> "user", content |-> p]

\* f"Error: {exc}"
ErrorText(msg) == <<"Error: ">> \o msg

ErrorMessage(msg) == [role |-> "assistant", content |-> ErrorText(msg)]

ExtractFailure == <<"Failed to extract SQL from the model output.">>

NoDatabaseText == "Please set ATHENA_DATABASE in the sidebar before asking a question."

\* the response dictionary; chart and cost are attached when given
Response(content, sql, columns, rws, records, chart, cost) ==
    IF chart # <<>> /\ cost # <<>>
    THEN [role |-> "assistant", content |-> content, sql |-> sql,
          table |-> [columns |-> columns, rows |-> rws], table_records |-> records,
          vega_spec |-> chart[1], llm_cost |-> cost[1]]
    ELSE IF chart # <<>>
    THEN [role |-> "assistant", content |-> content, sql |-> sql,
          table |-> [columns |-> columns, rows |-> rws], table_records |-> records,
          vega_spec |-> chart[1]]
    ELSE IF cost # <<>>
    THEN [role |-> "assistant", content |-> content, sql |-> sql,
          table |-> [columns |-> columns, rows |-> rws], table_records |-> records,
          llm_cost |-> cost[1]]
    ELSE [role |-> "assistant", content |-> content, sql |-> sql,
          table |-> [columns |-> columns, rows |-> rws], table_records |-> records]

\* _handle_prompt from the query result on: records, chart, cost, response
AppResponse(sql, columns, rws, chart_requested, instructions, outputs) ==
    LET records == RecordsFromTable(columns, rws)
        chart == IF chart_requested /\ records # <<>> THEN BuildChart(records) ELSE <<>>
    IN  Response(<<"Results shown above.", NL2, Fence, "sql", NL>> \o sql \o <<NL, Fence>>,
                 sql, columns, rws, records, chart, <<LlmCost(instructions, outputs)>>)

\* src/ui.py: the chart stage, from the records shown
UiChart(wants, columns, rws) ==
    LET records == RecordsFromTable(columns, rws)
    IN  IF wants /\ records # <<>> THEN BuildChart(records) ELSE <<>>

\* src/ui.py: the cost, the combined text and resp_message
UiResponse(sql, columns, rws, chart, final_text, display_cost, texts_in, texts_out) ==
    Response(<<"Results shown above.", NL2, Fence, "sql", NL>> \o sql
                 \o <<NL, Fence, NL2>> \o final_text,
             sql, columns, rws, RecordsFromTable(columns, rws), chart,
             IF display_cost THEN <<LlmCost(texts_in, texts_out)>> ELSE <<>>)

-----------------------------------------------------------------------------
(* What the agent and the query client may answer within a turn *)

FencedReply == <<Fence, "sql", NL, "select", " ", "x", NL, Fence>>

AgentReplies ==
    { PyStr(FencedReply),
      PyStr(<<"x">>),
      PyStr(<<Fence, "sql", " ", Fence, " ", "select", " ", "x">>),
      PyNone,
      PyDict(<<"role", "content">>,
             <<PyStr(<<"assistant">>), PyList(<<PyDict(<<"text">>, <<PyStr(FencedReply)>>)>>)>>) }

ExplainReplies == {PyStr(<<"x">>), PyNone}

\* str(e) of what the agent may raise
AgentErrors == {<<>>, <<"throttled">>}

TurnColumns == <<"region", "Sales">>

\* how run_athena_query may end when a turn calls it
TurnQueryOutcomes ==
    { Raised("MemoryError", <<>>),
      Raised("TimeoutError", TimeoutMessage),
      Raised("RuntimeError", FailureMessage("FAILED", "syntax error")),
      Returned(TurnColumns, <<>>),
      Returned(TurnColumns, <<<<"West", "98">>, <<"East", "12">>>>) }

\* A variant that lets an empty extraction through.
NoSqlNever(sql) == FALSE

\* not sql_to_run
NoSql(sql) == sql = <<>>

\* A variant in which a holder is created with its flag already set.
HolderBornDone == [done |-> TRUE, result |-> <<>>, error |-> <<>>]

\* the holder dictionaries of src/ui.py; <<>> is None, <<v>> is the value v
FreshHolder == [done |-> FALSE, result |-> <<>>, error |-> <<>>]

\* if holder["error"]: a None or an empty string does not count
HolderFailed(holder) == holder.error # <<>> /\ holder.error[1] # <<>>

\* A variant in which a finished worker starts the SQL worker once more.
WorkerStartedAgain == [stage |-> "sql", pc |-> "call"]

NoWorker == [stage |-> "none", pc |-> "none"]

NoTable == [columns |-> <<>>, rows |-> <<>>]

AppSettings == [database |-> "super_store_data", explain_mode |-> FALSE, display_cost |-> TRUE]

UiSettings ==
    [database : {"", "db"}, explain_mode : BOOLEAN, display_cost : BOOLEAN]

-----------------------------------------------------------------------------
(* Extractor harness: build a raw text token by token, then extract *)

ExtractInit ==
    /\ ex_pc = "typing"
    /\ raw_text = <<>>
    /\ sql_out = <<>>

ExType ==
    /\ ex_pc = "typing"
    /\ Len(raw_text) < MaxTextLen
    /\ \E c \in Tokens : raw_text' = Append(raw_text, c)
    /\ UNCHANGED <<ex_pc, sql_out, notExtract>>

ExCall ==
    /\ ex_pc = "typing"
    /\ sql_out' = ExtractSql(raw_text)
    /\ ex_pc' = "done"
    /\ UNCHANGED <<raw_text, notExtract>>

ExtractNext == ExType \/ ExCall

-----------------------------------------------------------------------------
(* The query client, one step per remote call *)

ProcessInit ==
    /\ environ \in QueryEnvs
    /\ client_cache = {}
    /\ creations = [r \in AllRegions |-> 0]

WaitIdle ==
    /\ exec_state = "QUEUED"
    /\ w_timeout = TimeoutS
    /\ elapsed = 0
    /\ w_state = Unset
    /\ w_reason = Unset
    /\ w_poll_late = FALSE
    /\ w_checked_late = FALSE

FetchIdle ==
    /\ cols = <<>>
    /\ rows = <<>>
    /\ count = 0
    /\ first_page = TRUE
    /\ delivered = <<>>
    /\ rows_seen = 0

CallIdle ==
    /\ q_pc = "idle"
    /\ q_sql = [is_str |-> TRUE, text |-> <<>>]
    /\ q_db = Unset
    /\ q_region = Unset
    /\ q_max_rows = 0
    /\ q_lookups = 0
    /\ q_started = 0
    /\ q_outcome = NoOutcome

QueryInit == ProcessInit /\ CallIdle /\ WaitIdle /\ FetchIdle

\* the locals of _wait_for_query and of the result loop, as a new call finds them
WaitReset ==
    /\ exec_state' = "QUEUED"
    /\ w_timeout' = TimeoutS
    /\ elapsed' = 0
    /\ w_state' = Unset
    /\ w_reason' = Unset
    /\ w_poll_late' = FALSE
    /\ w_checked_late' = FALSE

FetchReset ==
    /\ cols' = <<>>
    /\ rows' = <<>>
    /\ count' = 0
    /\ first_page' = TRUE
    /\ delivered' = <<>>
    /\ rows_seen' = 0

\* run_athena_query is called; the argument checks of its first lines
RunCall ==
    /\ q_pc = "idle"
    /\ \E sql \in SqlArgs, db \in DatabaseArgs, region \in RegionArgs,
          mr \in 0..MaxRowsArg :
          /\ q_sql' = sql
          /\ q_db' = db
          /\ q_region' = region
          /\ q_max_rows' = mr
          /\ IF SqlMissing(sql)
             THEN /\ q_pc' = "raised"
                  /\ q_outcome' = Raised("ValueError", <<"sql is required">>)
             ELSE IF ~Truthy(ResolveDatabase(environ, db))
             THEN /\ q_pc' = "raised"
                  /\ q_outcome' = Raised("ValueError",
                         <<"database is required (or set ATHENA_DATABASE)">>)
             ELSE /\ q_pc' = "clients"
                  /\ q_outcome' = NoOutcome
    /\ q_lookups' = 0
    /\ q_started' = 0
    /\ WaitReset
    /\ FetchReset
    /\ UNCHANGED <<processVars, notQuery>>

\* athena, _ = _athena_clients(region_name)
RunClients ==
    /\ q_pc = "clients"
    /\ q_lookups' = q_lookups + 1
    /\ LET region == ResolveRegion(environ, q_region)
       IN  IF ~Truthy(region)
           THEN /\ q_pc' = "raised"
                /\ q_outcome' = Raised("RuntimeError",
                       <<"AWS region not configured. Set AWS_REGION or AWS_DEFAULT_REGION.">>)
                /\ UNCHANGED <<client_cache, creations>>
           ELSE /\ q_pc' = "submit"
                /\ q_outcome' = NoOutcome
                /\ IF CacheMiss(client_cache, region)
                   THEN /\ client_cache' = client_cache \cup {region}
                        /\ creations' = [creations EXCEPT ![region] = @ + 1]
                   ELSE UNCHANGED <<client_cache, creations>>
    /\ UNCHANGED <<environ, q_sql, q_db, q_region, q_max_rows, q_started>>
    /\ UNCHANGED <<waitVars, fetchVars, notQuery>>

\* athena.start_query_execution(**kwargs), then _wait_for_query is entered
RunStart ==
    /\ q_pc = "submit"
    /\ q_started' = q_started + 1
    /\ \/ /\ q_pc' = "poll"
          /\ q_outcome' = NoOutcome
       \/ \E e \in RemoteErrors :
             /\ q_pc' = "raised"
             /\ q_outcome' =
                   IF e.type = "ClientError"
                   THEN Raised("RuntimeError", <<"Failed to start query: ">> \o e.msg)
                   ELSE Raised(e.type, e.msg)
    /\ UNCHANGED <<q_sql, q_db, q_region, q_max_rows, q_lookups>>
    /\ UNCHANGED <<processVars, waitVars, fetchVars, notQuery>>

\* resp = athena.get_query_execution(...); return when the state is terminal
WaitPoll ==
    /\ q_pc = "poll"
    /\ \/ \E d \in 0..MaxCallTime, s \in ExecSucc(exec_state) :
          \E r \in ReasonsFor(s) :
             /\ exec_state' = s
             /\ w_state' = s
             /\ w_reason' = r
             /\ w_poll_late' = (elapsed + d > w_timeout)
             /\ IF IsTerminal(s)
                THEN /\ q_pc' = "waited"
                     /\ elapsed' = 0
                ELSE /\ q_pc' = "deadline"
                     /\ elapsed' = elapsed + d
             /\ q_outcome' = NoOutcome
             /\ UNCHANGED <<w_timeout, w_checked_late>>
       \/ \E e \in RemoteErrors :
             /\ q_pc' = "raised"
             /\ q_outcome' = Raised(e.type, e.msg)
             /\ elapsed' = 0
             /\ UNCHANGED <<exec_state, w_timeout, w_state, w_reason, w_poll_late,
                            w_checked_late>>
    /\ UNCHANGED <<q_sql, q_db, q_region, q_max_rows, q_lookups, q_started>>
    /\ UNCHANGED <<processVars, fetchVars, notQuery>>

\* if time.time() - start > timeout_s: raise TimeoutError(...)
WaitDeadline ==
    /\ q_pc = "deadline"
    /\ IF DeadlinePassed(elapsed, w_timeout)
       THEN /\ q_pc' = "raised"
            /\ q_outcome' = Raised("TimeoutError", TimeoutMessage)
            /\ w_checked_late' = TRUE
            /\ elapsed' = 0
       ELSE /\ q_pc' = "sleep"
            /\ UNCHANGED <<q_outcome, w_checked_late, elapsed>>
    /\ UNCHANGED <<q_sql, q_db, q_region, q_max_rows, q_lookups, q_started>>
    /\ UNCHANGED <<exec_state, w_timeout, w_state, w_reason, w_poll_late>>
    /\ UNCHANGED <<processVars, fetchVars, notQuery>>

\* time.sleep(poll_s)
WaitSleep ==
    /\ q_pc = "sleep"
    /\ \E j \in 0..MaxJitter : elapsed' = elapsed + PollS + j
    /\ q_pc' = "poll"
    /\ UNCHANGED <<q_sql, q_db, q_region, q_max_rows, q_lookups, q_started, q_outcome>>
    /\ UNCHANGED <<exec_state, w_timeout, w_state, w_reason, w_poll_late, w_checked_late>>
    /\ UNCHANGED <<processVars, fetchVars, notQuery>>

\* timeout_s of a call of _wait_for_query: none at all, or the default
WaitTimeouts == {0, TimeoutS}

\* _wait_for_query is called on its own: start = time.time()
WaitCall ==
    /\ q_pc = "idle"
    /\ \E t \in WaitTimeouts : w_timeout' = t
    /\ q_pc' = "poll"
    /\ UNCHANGED <<q_sql, q_db, q_region, q_max_rows, q_lookups, q_started, q_outcome>>
    /\ UNCHANGED <<exec_state, elapsed, w_state, w_reason, w_poll_late, w_checked_late>>
    /\ UNCHANGED <<processVars, fetchVars, notQuery>>

\* the call of _wait_for_query is over: return state, resp, or the exception
WaitExit ==
    /\ q_pc \in {"waited", "raised"}
    /\ q_pc' = "idle"
    /\ q_outcome' = NoOutcome
    /\ WaitReset
    /\ UNCHANGED <<q_sql, q_db, q_region, q_max_rows, q_lookups, q_started>>
    /\ UNCHANGED <<processVars, fetchVars, notQuery>>

WaitNext ==
    \/ WaitCall
    \/ WaitPoll
    \/ WaitDeadline
    \/ WaitSleep
    \/ WaitExit

\* back in run_athena_query: if state != "SUCCEEDED": raise RuntimeError(...)
RunCheckState ==
    /\ q_pc = "waited"
    /\ IF StateIsFailure(w_state)
       THEN /\ q_pc' = "raised"
            /\ q_outcome' = Raised("RuntimeError", FailureMessage(w_state, w_reason))
       ELSE /\ q_pc' = "fetch"
            /\ q_outcome' = NoOutcome
    /\ UNCHANGED <<q_sql, q_db, q_region, q_max_rows, q_lookups, q_started>>
    /\ UNCHANGED <<processVars, waitVars, fetchVars, notQuery>>

\* one round of "for page in paginator.paginate(...)": the page is requested,
\* its rows are looped over, and the function returns when the limit is reached
\* or the paginator has no further page
RunFetchPage ==
    /\ q_pc = "fetch"
    /\ \/ \E cs \in (IF delivered = <<>> THEN ColumnLists ELSE {delivered[1].columns}) :
          \E pr \in PageRowsChoices(cs, delivered = <<>>),
             more \in (IF Len(delivered) + 1 < MaxPages THEN BOOLEAN ELSE {FALSE}) :
             LET cols1 == IF first_page THEN cs ELSE cols
                 acc == RowLoop(pr, cols1,
                                [rows |-> rows, count |-> count, seen |-> rows_seen],
                                q_max_rows)
             IN  /\ delivered' = Append(delivered, [columns |-> cs, rows |-> pr])
                 /\ cols' = cols1
                 /\ first_page' = FALSE
                 /\ rows' = acc.rows
                 /\ count' = acc.count
                 /\ rows_seen' = acc.seen
                 /\ IF LimitReached(acc.count, q_max_rows) \/ ~more
                    THEN /\ q_pc' = "returned"
                         /\ q_outcome' = Returned(cols1, acc.rows)
                    ELSE /\ q_pc' = "fetch"
                         /\ q_outcome' = NoOutcome
       \/ \E e \in RemoteErrors :
             /\ q_pc' = "raised"
             /\ q_outcome' = Raised(e.type, e.msg)
             /\ UNCHANGED fetchVars
    /\ UNCHANGED <<q_sql, q_db, q_region, q_max_rows, q_lookups, q_started>>
    /\ UNCHANGED <<processVars, waitVars, notQuery>>

\* the call is over: the caller has the outcome and the frame is gone
RunExit ==
    /\ q_pc \in {"returned", "raised"}
    /\ q_pc' = "idle"
    /\ q_sql' = [is_str |-> TRUE, text |-> <<>>]
    /\ q_db' = Unset
    /\ q_region' = Unset
    /\ q_max_rows' = 0
    /\ q_lookups' = 0
    /\ q_started' = 0
    /\ q_outcome' = NoOutcome
    /\ WaitReset
    /\ FetchReset
    /\ UNCHANGED <<processVars, notQuery>>

QueryNext ==
    \/ RunCall
    \/ RunClients
    \/ RunStart
    \/ WaitPoll
    \/ WaitDeadline
    \/ WaitSleep
    \/ RunCheckState
    \/ RunFetchPage
    \/ RunExit

-----------------------------------------------------------------------------
(* The conversation turn: run_app / _handle_prompt of src/src/app.py, and   *)
(* the script of src/ui.py with its worker threads                         *)

TurnInit ==
    /\ entry \in {"app", "ui"}
    /\ settings \in (IF entry = "app" THEN {AppSettings} ELSE UiSettings)
    /\ messages = <<>>
    /\ st_error = <<>>
    /\ t_pc = "awaiting_input"
    /\ prompt = <<>>
    /\ want_chart = FALSE
    /\ in_texts = <<>>
    /\ out_texts = <<>>
    /\ sql_text_full = <<>>
    /\ sql_to_run = <<>>
    /\ sql_holder = FreshHolder
    /\ query_holder = FreshHolder
    /\ explain_holder = FreshHolder
    /\ worker = NoWorker
    /\ res_table = NoTable
    /\ chart_spec = <<>>
    /\ agent_calls = 0
    /\ query_calls = 0
    /\ query_raised = <<>>
    /\ query_sql = <<>>

\* A variant in which the response takes the place of the history.
FinishTurnReplacing(response, shown) ==
    /\ messages' = <<response>>
    /\ st_error' = shown
    /\ t_pc' = "awaiting_input"
    /\ in_texts' = <<>>
    /\ out_texts' = <<>>
    /\ sql_holder' = FreshHolder
    /\ query_holder' = FreshHolder
    /\ explain_holder' = FreshHolder
    /\ worker' = NoWorker
    /\ res_table' = NoTable
    /\ chart_spec' = <<>>

\* the script run ends: the response joins the history, the locals are gone
FinishTurn(response, shown) ==
    /\ messages' = Append(messages, response)
    /\ st_error' = shown
    /\ t_pc' = "awaiting_input"
    /\ in_texts' = <<>>
    /\ out_texts' = <<>>
    /\ sql_holder' = FreshHolder
    /\ query_holder' = FreshHolder
    /\ explain_holder' = FreshHolder
    /\ worker' = NoWorker
    /\ res_table' = NoTable
    /\ chart_spec' = <<>>

\* a script run that handles no prompt: the previous run's locals are gone
NoTurn ==
    /\ prompt' = <<>>
    /\ want_chart' = FALSE
    /\ sql_text_full' = <<>>
    /\ sql_to_run' = <<>>
    /\ agent_calls' = 0
    /\ query_calls' = 0
    /\ query_raised' = <<>>
    /\ query_sql' = <<>>

\* A variant in which a failure ends the session.
FailTurnFatal(msg) ==
    /\ messages' = Append(messages, ErrorMessage(msg))
    /\ st_error' = ErrorText(msg)
    /\ t_pc' = "crashed"
    /\ in_texts' = <<>>
    /\ out_texts' = <<>>
    /\ sql_holder' = FreshHolder
    /\ query_holder' = FreshHolder
    /\ explain_holder' = FreshHolder
    /\ worker' = NoWorker
    /\ res_table' = NoTable
    /\ chart_spec' = <<>>

\* A variant in which a failure is shown and not added to the history.
FailTurnUnrecorded(msg) ==
    /\ messages' = messages
    /\ st_error' = ErrorText(msg)
    /\ t_pc' = "awaiting_input"
    /\ in_texts' = <<>>
    /\ out_texts' = <<>>
    /\ sql_holder' = FreshHolder
    /\ query_holder' = FreshHolder
    /\ explain_holder' = FreshHolder
    /\ worker' = NoWorker
    /\ res_table' = NoTable
    /\ chart_spec' = <<>>

\* except Exception as exc: the error text is shown and becomes the response
FailTurn(msg) == FinishTurn(ErrorMessage(msg), ErrorText(msg))

\* a prompt arrives at st.chat_input; the database check, the user message,
\* the chart wish and the SQL instruction
SubmitPrompt ==
    /\ t_pc = "awaiting_input"
    /\ Len(messages) < 2 * MaxTurns
    /\ \E p \in Prompts :
          IF ~Truthy(settings.database)
          THEN /\ st_error' = <<NoDatabaseText>>
               /\ NoTurn
               /\ UNCHANGED <<messages, t_pc, in_texts, out_texts, sql_holder, worker>>
          ELSE /\ st_error' = <<>>
               /\ messages' = Append(messages, UserMessage(p))
               /\ prompt' = p
               /\ want_chart' = WantsChart(p)
               /\ in_texts' = <<SqlInstruction(entry, p)>>
               /\ out_texts' = <<>>
               /\ sql_text_full' = <<>>
               /\ sql_to_run' = <<>>
               /\ t_pc' = "generating_sql"
               /\ sql_holder' = FreshHolder
               /\ worker' = IF entry = "ui" THEN [stage |-> "sql", pc |-> "call"]
                            ELSE NoWorker
               /\ agent_calls' = 0
               /\ query_calls' = 0
               /\ query_raised' = <<>>
               /\ query_sql' = <<>>
    /\ UNCHANGED <<entry, settings, query_holder, explain_holder, res_table, chart_spec>>
    /\ UNCHANGED notTurn

\* _handle_prompt: the agent call, as_text, _extract_sql and the empty check
AppGenerateSql ==
    /\ entry = "app"
    /\ t_pc = "generating_sql"
    /\ agent_calls' = agent_calls + 1
    /\ \/ \E e \in AgentErrors :
             /\ FailTurn(e)
             /\ UNCHANGED <<sql_text_full, sql_to_run>>
       \/ \E raw \in AgentReplies :
             LET text == AsText(raw)
                 sql == ExtractSql(text)
             IN  /\ sql_text_full' = <<text>>
                 /\ sql_to_run' = sql
                 /\ IF NoSql(sql)
                    THEN FailTurn(ExtractFailure)
                    ELSE /\ out_texts' = Append(out_texts, text)
                         /\ t_pc' = "running_query"
                         /\ UNCHANGED <<messages, st_error, in_texts, threadVars>>
    /\ UNCHANGED <<entry, settings, prompt, want_chart, query_calls, query_raised,
                   query_sql>>
    /\ UNCHANGED notTurn

\* _handle_prompt: run_athena_query, then records, chart, cost and response
AppRunQuery ==
    /\ entry = "app"
    /\ t_pc = "running_query"
    /\ query_calls' = query_calls + 1
    /\ query_sql' = sql_to_run
    /\ \E o \in TurnQueryOutcomes :
          IF o.kind = "raised"
          THEN /\ query_raised' = <<o.msg>>
               /\ FailTurn(o.msg)
          ELSE /\ query_raised' = <<>>
               /\ FinishTurn(AppResponse(sql_to_run, o.columns, o.rows, want_chart,
                                         in_texts, out_texts),
                             <<>>)
    /\ UNCHANGED <<entry, settings, prompt, want_chart, sql_text_full, sql_to_run,
                   agent_calls>>
    /\ UNCHANGED notTurn

\* _worker_sql: res = agent_ref(instruction_sql), result or error is stored
WorkerSqlCall ==
    /\ worker = [stage |-> "sql", pc |-> "call"]
    /\ agent_calls' = agent_calls + 1
    /\ \/ \E e \in AgentErrors : sql_holder' = [sql_holder EXCEPT !.error = <<e>>]
       \/ \E raw \in AgentReplies : sql_holder' = [sql_holder EXCEPT !.result = <<raw>>]
    /\ worker' = [stage |-> "sql", pc |-> "finally"]
    /\ UNCHANGED <<sessionVars, localVars, query_holder, explain_holder, res_table,
                   chart_spec, query_calls, query_raised,
                   query_sql>>
    /\ UNCHANGED notTurn

\* _worker_sql: finally: sql_holder["done"] = True
WorkerSqlFinally ==
    /\ worker = [stage |-> "sql", pc |-> "finally"]
    /\ sql_holder' = [sql_holder EXCEPT !.done = TRUE]
    /\ worker' = NoWorker
    /\ UNCHANGED <<sessionVars, localVars, query_holder, explain_holder, res_table,
                   chart_spec, countVars>>
    /\ UNCHANGED notTurn

\* the main thread leaves its wait loop: error check, _as_text, extraction,
\* and the query worker is started
UiAfterSql ==
    /\ entry = "ui"
    /\ t_pc = "generating_sql"
    /\ sql_holder.done
    /\ IF HolderFailed(sql_holder)
       THEN /\ FailTurn(sql_holder.error[1])
            /\ UNCHANGED <<sql_text_full, sql_to_run>>
       ELSE \E text \in {AsText(IF sql_holder.result = <<>> THEN PyNone
                                  ELSE sql_holder.result[1])} :
            \E sql \in {ExtractSql(text)} :
                /\ sql_text_full' = <<text>>
                /\ sql_to_run' = sql
                /\ IF NoSql(sql)
                   THEN FailTurn(ExtractFailure)
                   ELSE /\ out_texts' = Append(out_texts, text)
                        /\ t_pc' = "running_query"
                        /\ query_holder' = FreshHolder
                        /\ worker' = [stage |-> "query", pc |-> "call"]
                        /\ UNCHANGED <<messages, st_error, in_texts, sql_holder,
                                       explain_holder, res_table, chart_spec>>
    /\ UNCHANGED <<entry, settings, prompt, want_chart, countVars>>
    /\ UNCHANGED notTurn

\* _worker_query: res = run_athena_query(...), result or error is stored
WorkerQueryCall ==
    /\ worker = [stage |-> "query", pc |-> "call"]
    /\ query_calls' = query_calls + 1
    /\ query_sql' = sql_to_run
    /\ \E o \in TurnQueryOutcomes :
          IF o.kind = "raised"
          THEN /\ query_raised' = <<o.msg>>
               /\ query_holder' = [query_holder EXCEPT !.error = <<o.msg>>]
          ELSE /\ query_raised' = <<>>
               /\ query_holder' = [query_holder EXCEPT
                                      !.result = <<[columns |-> o.columns, rows |-> o.rows]>>]
    /\ worker' = [stage |-> "query", pc |-> "finally"]
    /\ UNCHANGED <<sessionVars, localVars, sql_holder, explain_holder, res_table,
                   chart_spec, agent_calls>>
    /\ UNCHANGED notTurn

\* _worker_query: finally: query_holder["done"] = True
WorkerQueryFinally ==
    /\ worker = [stage |-> "query", pc |-> "finally"]
    /\ query_holder' = [query_holder EXCEPT !.done = TRUE]
    /\ worker' = NoWorker
    /\ UNCHANGED <<sessionVars, localVars, sql_holder, explain_holder, res_table,
                   chart_spec, countVars>>
    /\ UNCHANGED notTurn

\* the main thread leaves its wait loop: error check, records, chart, and
\* either the explanation worker is started or the response is built
UiAfterQuery ==
    /\ entry = "ui"
    /\ t_pc = "running_query"
    /\ query_holder.done
    /\ IF HolderFailed(query_holder)
       THEN FailTurn(query_holder.error[1])
       ELSE \E res \in {IF query_holder.result = <<>> THEN NoTable
                          ELSE query_holder.result[1]} :
            \E chart \in {UiChart(want_chart, res.columns, res.rows)} :
                IF settings.explain_mode
                THEN /\ res_table' = res
                     /\ chart_spec' = chart
                     /\ explain_holder' = FreshHolder
                     /\ worker' = [stage |-> "explain", pc |-> "call"]
                     /\ t_pc' = "explaining"
                     /\ UNCHANGED <<messages, st_error, in_texts, out_texts, sql_holder,
                                    query_holder>>
                ELSE FinishTurn(UiResponse(sql_to_run, res.columns, res.rows, chart, <<>>,
                                           settings.display_cost, in_texts, out_texts),
                                <<>>)
    /\ UNCHANGED <<entry, settings, prompt, want_chart, sql_text_full, sql_to_run,
                   countVars>>
    /\ UNCHANGED notTurn

\* _worker_explain: res = agent_ref(instruction_explain), result or error is stored
WorkerExplainCall ==
    /\ worker = [stage |-> "explain", pc |-> "call"]
    /\ agent_calls' = agent_calls + 1
    /\ \/ \E e \in AgentErrors : explain_holder' = [explain_holder EXCEPT !.error = <<e>>]
       \/ \E raw \in ExplainReplies :
             explain_holder' = [explain_holder EXCEPT !.result = <<raw>>]
    /\ worker' = [stage |-> "explain", pc |-> "finally"]
    /\ UNCHANGED <<sessionVars, localVars, sql_holder, query_holder, res_table,
                   chart_spec, query_calls, query_raised,
                   query_sql>>
    /\ UNCHANGED notTurn

\* _worker_explain: finally: explain_holder["done"] = True
WorkerExplainFinally ==
    /\ worker = [stage |-> "explain", pc |-> "finally"]
    /\ explain_holder' = [explain_holder EXCEPT !.done = TRUE]
    /\ worker' = NoWorker
    /\ UNCHANGED <<sessionVars, localVars, sql_holder, query_holder, res_table,
                   chart_spec, countVars>>
    /\ UNCHANGED notTurn

\* the main thread leaves its wait loop: error check, final_text, cost, response
UiAfterExplain ==
    /\ entry = "ui"
    /\ t_pc = "explaining"
    /\ explain_holder.done
    /\ IF HolderFailed(explain_holder)
       THEN FailTurn(explain_holder.error[1])
       ELSE \E final_text \in {AsText(IF explain_holder.result = <<>> THEN PyNone
                                        ELSE explain_holder.result[1])} :
                FinishTurn(UiResponse(sql_to_run, res_table.columns, res_table.rows,
                                      chart_spec, final_text, settings.display_cost,
                                      Append(in_texts, ExplainInstruction(sql_to_run)),
                                      Append(out_texts, final_text)),
                           <<>>)
    /\ UNCHANGED <<entry, settings, prompt, want_chart, sql_text_full, sql_to_run,
                   countVars>>
    /\ UNCHANGED notTurn

\* the sidebar button "Reset conversation" of src/ui.py
ResetConversation ==
    /\ entry = "ui"
    /\ t_pc = "awaiting_input"
    /\ messages' = <<>>
    /\ st_error' = <<>>
    /\ NoTurn
    /\ UNCHANGED <<entry, settings, t_pc, in_texts, out_texts, threadVars>>
    /\ UNCHANGED notTurn

\* a sidebar widget of src/ui.py is changed between two prompts
EditSidebar ==
    /\ entry = "ui"
    /\ t_pc = "awaiting_input"
    /\ \E s \in UiSettings : s # settings /\ settings' = s
    /\ st_error' = <<>>
    /\ NoTurn
    /\ UNCHANGED <<entry, messages, t_pc, in_texts, out_texts, threadVars>>
    /\ UNCHANGED notTurn

TurnNext ==
    \/ SubmitPrompt
    \/ AppGenerateSql
    \/ AppRunQuery
    \/ WorkerSqlCall
    \/ WorkerSqlFinally
    \/ UiAfterSql
    \/ WorkerQueryCall
    \/ WorkerQueryFinally
    \/ UiAfterQuery
    \/ WorkerExplainCall
    \/ WorkerExplainFinally
    \/ UiAfterExplain
    \/ ResetConversation
    \/ EditSidebar

-----------------------------------------------------------------------------
(* records_from_table harness: build a table cell by cell, then convert it  *)
(* and build the response as the turn does                                 *)

RecInit ==
    /\ rec_pc = "building"
    /\ rec_columns = <<>>
    /\ rec_rows = <<>>
    /\ rec_records = <<>>
    /\ rec_message = ErrorMessage(<<>>)

RecAddColumn ==
    /\ rec_pc = "building"
    /\ Len(rec_columns) < MaxCols
    /\ \E c \in ColumnNames : rec_columns' = Append(rec_columns, c)
    /\ UNCHANGED <<rec_pc, rec_rows, rec_records, rec_message>>
    /\ UNCHANGED notRec

\* a row of any length up to one cell more than the columns allow
RecAddRow ==
    /\ rec_pc = "building"
    /\ Len(rec_rows) < MaxTableRows
    /\ \E family \in {"A", "B"}, n \in 0..(MaxCols + 1) :
          rec_rows' = Append(rec_rows, [i \in 1..n |-> CellOf(family, i)])
    /\ UNCHANGED <<rec_pc, rec_columns, rec_records, rec_message>>
    /\ UNCHANGED notRec

\* records_from_table(columns, rows), and the response either entry point builds
RecConvert ==
    /\ rec_pc = "building"
    /\ rec_pc' = "done"
    /\ rec_records' = RecordsFromTable(rec_columns, rec_rows)
    /\ \E e \in {"app", "ui"}, wants \in BOOLEAN :
          rec_message' =
              IF e = "app"
              THEN AppResponse(<<"select", " ", "x">>, rec_columns, rec_rows, wants,
                               <<>>, <<>>)
              ELSE UiResponse(<<"select", " ", "x">>, rec_columns, rec_rows,
                              UiChart(wants, rec_columns, rec_rows), <<>>, FALSE,
                              <<>>, <<>>)
    /\ UNCHANGED <<rec_columns, rec_rows>>
    /\ UNCHANGED notRec

RecNext == RecAddColumn \/ RecAddRow \/ RecConvert

-----------------------------------------------------------------------------
(* _build_chart harness: build the records key by key, then build the chart *)

ChartInit ==
    /\ ch_pc = "building"
    /\ ch_records = <<>>
    /\ ch_y = Unset
    /\ ch_x = Unset
    /\ ch_spec = <<>>

\* one more key in the first record
ChAddField ==
    /\ ch_pc = "building"
    /\ Len(ch_records) = 1
    /\ Len(ch_records[1]) < MaxFields
    /\ \E k \in ChartKeys, v \in ChartValues :
          /\ ~HasField(ch_records[1], k)
          /\ ch_records' = <<Append(ch_records[1], [key |-> k, value |-> v])>>
    /\ UNCHANGED <<ch_pc, ch_y, ch_x, ch_spec>>
    /\ UNCHANGED notChart

\* one more record: the first one starts empty, the others share its keys
ChAddRecord ==
    /\ ch_pc = "building"
    /\ Len(ch_records) < MaxChartRecords
    /\ ch_records' = IF ch_records = <<>> THEN << <<>> >>
                     ELSE Append(ch_records, FurtherRecord(ch_records[1]))
    /\ UNCHANGED <<ch_pc, ch_y, ch_x, ch_spec>>
    /\ UNCHANGED notChart

\* _build_chart(records)
ChBuild ==
    /\ ch_pc = "building"
    /\ ch_pc' = "done"
    /\ ch_y' = IF ch_records = <<>> THEN Unset ELSE YField(ch_records[1])
    /\ ch_x' = IF ch_records = <<>> THEN Unset
               ELSE XField(ch_records[1], YField(ch_records[1]))
    /\ ch_spec' = BuildChart(ch_records)
    /\ UNCHANGED ch_records
    /\ UNCHANGED notChart

ChartNext == ChAddField \/ ChAddRecord \/ ChBuild

-----------------------------------------------------------------------------
(* as_text harness: build a value step by step, then normalize it, and       *)
(* normalize what came back                                                 *)

NormInit ==
    /\ nv_pc = "building"
    /\ nv_fn = "app"
    /\ nv_value \in Leaves
    /\ nv_steps = 0
    /\ nv_outcome = NotCalled
    /\ nv_again = NotCalled

\* the value becomes the only entry of a mapping, or the only item of a list,
\* or the only attribute of an object
NvWrap ==
    /\ nv_pc = "building"
    /\ nv_steps < MaxSteps
    /\ \/ \E k \in DictKeys : nv_value' = PyDict(<<k>>, <<nv_value>>)
       \/ nv_value' = PyList(<<nv_value>>)
       \/ \E k \in AttrNames : nv_value' = PyObject(<<k>>, <<nv_value>>)
       \/ \E k \in AttrNames : nv_value' = PyUnprintable(<<k>>, <<nv_value>>)
    /\ nv_steps' = nv_steps + 1
    /\ UNCHANGED <<nv_pc, nv_fn, nv_outcome, nv_again>>
    /\ UNCHANGED notNorm

\* one more entry, item or attribute
NvAdd ==
    /\ nv_pc = "building"
    /\ nv_steps < MaxSteps
    /\ nv_value.tag \in {"dict", "list", "object", "unprintable"}
    /\ Len(nv_value.items) < MaxSteps
    /\ \E v \in AddLeaves :
          IF nv_value.tag = "list"
          THEN nv_value' = PyList(Append(nv_value.items, v))
          ELSE \E k \in (IF nv_value.tag = "dict" THEN DictKeys ELSE AttrNames) :
                  /\ ~HasKey(nv_value, k)
                  /\ nv_value' = [nv_value EXCEPT !.keys = Append(@, k),
                                                   !.items = Append(@, v)]
    /\ nv_steps' = nv_steps + 1
    /\ UNCHANGED <<nv_pc, nv_fn, nv_outcome, nv_again>>
    /\ UNCHANGED notNorm

\* a list becomes a long stream of its items
NvRepeat ==
    /\ nv_pc = "building"
    /\ nv_steps < MaxSteps
    /\ nv_value.tag = "list"
    /\ Len(nv_value.items) < MaxSteps
    /\ \E n \in StreamLengths : nv_value' = PyList(Repeated(nv_value.items, n))
    /\ nv_steps' = nv_steps + 1
    /\ UNCHANGED <<nv_pc, nv_fn, nv_outcome, nv_again>>
    /\ UNCHANGED notNorm

\* as_text(obj) or _as_text(obj), then the same call on what it returned
NvNormalize ==
    /\ nv_pc = "building"
    /\ nv_pc' = "done"
    /\ \E fn \in {"app", "ui"} :
          LET first == AsTextOutcome(fn, nv_value)
          IN  /\ nv_fn' = fn
              /\ nv_outcome' = first
              /\ nv_again' = IF first.kind = "raised" THEN TextRaised
                             ELSE AsTextOutcome(fn, PyStr(first.text))
    /\ UNCHANGED <<nv_value, nv_steps>>
    /\ UNCHANGED notNorm

NormNext == NvWrap \/ NvAdd \/ NvRepeat \/ NvNormalize

-----------------------------------------------------------------------------
(* The catalog tools: list_athena_tables and get_athena_table_schema *)

CatalogTools == {"list_athena_tables", "get_athena_table_schema"}

TableNames == {"orders", "returns"}

SchemaNames == {"id", "dt"}

SchemaTypes == {"bigint", "string"}

\* an entry of StorageDescriptor.Columns or of PartitionKeys
ColumnEntries == [Name : SchemaNames, Type : SchemaTypes]

\* what glue.get_table may answer; a missing list reads as the empty list
TableResponses ==
    [Columns : SeqsUpTo(ColumnEntries, MaxSchemaCols),
     PartitionKeys : SeqsUpTo(ColumnEntries, MaxSchemaCols)]

NoTableResponse == [Columns |-> <<>>, PartitionKeys |-> <<>>]

\* A variant in which a name keeps the type it was first given.
SchemaSetKeepFirst(columns, name, type) ==
    IF HasField(columns, name) THEN columns
    ELSE Append(columns, [key |-> name, value |-> type])

\* cols[c.get("Name")] = c.get("Type")
SchemaSet(columns, name, type) == RecordSet(columns, name, type)

\* for c in <entries>: cols[c.get("Name")] = c.get("Type")
RECURSIVE SchemaLoop(_, _)
SchemaLoop(entries, columns) ==
    IF entries = <<>> THEN columns
    ELSE SchemaLoop(Tail(entries),
                    SchemaSet(columns, Head(entries).Name, Head(entries).Type))

\* get_athena_table_schema from the response on: both loops, then return cols
TableSchema(res) == SchemaLoop(res.PartitionKeys, SchemaLoop(res.Columns, <<>>))

CatNoOutcome == [kind |-> "none", exc |-> "", msg |-> <<>>, value |-> <<>>]

CatRaised(type, msg) == [kind |-> "raised", exc |-> type, msg |-> msg, value |-> <<>>]

CatReturned(v) == [kind |-> "returned", exc |-> "", msg |-> <<>>, value |-> v]

\* except botocore.exceptions.ClientError as e: raise RuntimeError(...)
GetTableFailure(e) ==
    IF e.type = "ClientError"
    THEN CatRaised("RuntimeError", <<"Glue get_table failed: ">> \o e.msg)
    ELSE CatRaised(e.type, e.msg)

\* list_athena_tables has no handler around the paginator
GetTablesFailure(e) == CatRaised(e.type, e.msg)

CatIdle ==
    /\ cat_pc = "idle"
    /\ cat_fn = "list_athena_tables"
    /\ cat_db = Unset
    /\ cat_region = Unset
    /\ cat_lookups = 0
    /\ cat_remote = 0
    /\ cat_pages = <<>>
    /\ cat_tables = <<>>
    /\ cat_table = NoTableResponse
    /\ cat_failed = <<>>
    /\ cat_outcome = CatNoOutcome

\* a catalog tool is called: db = database or os.getenv("ATHENA_DATABASE")
CatCall ==
    /\ cat_pc = "idle"
    /\ \E fn \in CatalogTools, db \in DatabaseArgs, region \in RegionArgs :
          /\ cat_fn' = fn
          /\ cat_db' = db
          /\ cat_region' = region
          /\ IF ~Truthy(ResolveDatabase(environ, db))
             THEN /\ cat_pc' = "raised"
                  /\ cat_outcome' = CatRaised("ValueError",
                         <<"database is required (or set ATHENA_DATABASE)">>)
             ELSE /\ cat_pc' = "clients"
                  /\ cat_outcome' = CatNoOutcome
    /\ cat_lookups' = 0
    /\ cat_remote' = 0
    /\ cat_pages' = <<>>
    /\ cat_tables' = <<>>
    /\ cat_table' = NoTableResponse
    /\ cat_failed' = <<>>
    /\ UNCHANGED <<processVars, notCat>>

\* _, glue = _athena_clients(region_name)
CatClients ==
    /\ cat_pc = "clients"
    /\ cat_lookups' = cat_lookups + 1
    /\ LET region == ResolveRegion(environ, cat_region)
       IN  IF ~Truthy(region)
           THEN /\ cat_pc' = "raised"
                /\ cat_outcome' = CatRaised("RuntimeError",
                       <<"AWS region not configured. Set AWS_REGION or AWS_DEFAULT_REGION.">>)
                /\ UNCHANGED <<client_cache, creations>>
           ELSE /\ cat_pc' = "remote"
                /\ cat_outcome' = CatNoOutcome
                /\ IF CacheMiss(client_cache, region)
                   THEN /\ client_cache' = client_cache \cup {region}
                        /\ creations' = [creations EXCEPT ![region] = @ + 1]
                   ELSE UNCHANGED <<client_cache, creations>>
    /\ UNCHANGED <<environ, cat_fn, cat_db, cat_region, cat_remote, cat_pages, cat_tables,
                   cat_table, cat_failed>>
    /\ UNCHANGED notCat

\* get_athena_table_schema: glue.get_table, the two loops, return cols
CatGetTable ==
    /\ cat_pc = "remote"
    /\ cat_fn = "get_athena_table_schema"
    /\ cat_remote' = cat_remote + 1
    /\ \/ \E res \in TableResponses :
             /\ cat_table' = res
             /\ cat_failed' = <<>>
             /\ cat_pc' = "returned"
             /\ cat_outcome' = CatReturned(TableSchema(res))
       \/ \E e \in RemoteErrors :
             /\ cat_failed' = <<e>>
             /\ cat_pc' = "raised"
             /\ cat_outcome' = GetTableFailure(e)
             /\ UNCHANGED cat_table
    /\ UNCHANGED <<cat_fn, cat_db, cat_region, cat_lookups, cat_pages, cat_tables>>
    /\ UNCHANGED <<processVars, notCat>>

\* list_athena_tables: one round of "for page in paginator.paginate(...)";
\* the tool returns when the paginator has no further page
CatListPage ==
    /\ cat_pc = "remote"
    /\ cat_fn = "list_athena_tables"
    /\ cat_remote' = cat_remote + 1
    /\ \/ \E page \in SeqsUpTo(TableNames, MaxPageTables),
             more \in (IF Len(cat_pages) + 1 < MaxCatalogPages THEN BOOLEAN ELSE {FALSE}) :
             /\ cat_pages' = Append(cat_pages, page)
             /\ cat_tables' = cat_tables \o page
             /\ cat_failed' = <<>>
             /\ IF more
                THEN /\ cat_pc' = "remote"
                     /\ cat_outcome' = CatNoOutcome
                ELSE /\ cat_pc' = "returned"
                     /\ cat_outcome' = CatReturned(cat_tables \o page)
       \/ \E e \in RemoteErrors :
             /\ cat_failed' = <<e>>
             /\ cat_pc' = "raised"
             /\ cat_outcome' = GetTablesFailure(e)
             /\ UNCHANGED <<cat_pages, cat_tables>>
    /\ UNCHANGED <<cat_fn, cat_db, cat_region, cat_lookups, cat_table>>
    /\ UNCHANGED <<processVars, notCat>>

\* the call is over: the caller has the outcome and the frame is gone
CatExit ==
    /\ cat_pc \in {"returned", "raised"}
    /\ cat_pc' = "idle"
    /\ cat_fn' = "list_athena_tables"
    /\ cat_db' = Unset
    /\ cat_region' = Unset
    /\ cat_lookups' = 0
    /\ cat_remote' = 0
    /\ cat_pages' = <<>>
    /\ cat_tables' = <<>>
    /\ cat_table' = NoTableResponse
    /\ cat_failed' = <<>>
    /\ cat_outcome' = CatNoOutcome
    /\ UNCHANGED <<processVars, notCat>>

CatalogNext ==
    \/ CatCall
    \/ CatClients
    \/ CatGetTable
    \/ CatListPage
    \/ CatExit

-----------------------------------------------------------------------------
(* The settings: load_athena_settings / AthenaSettings.apply of              *)
(* src/src/settings.py, and the sidebar fields of src/ui.py                  *)

\* the set_env_var calls of a sync, in the order both entry points make them
SyncCalls ==
    << [name |-> "AWS_REGION", key |-> "region"],
       [name |-> "AWS_DEFAULT_REGION", key |-> "region"],
       [name |-> "ATHENA_DATABASE", key |-> "database"],
       [name |-> "ATHENA_WORKGROUP", key |-> "workgroup"],
       [name |-> "ATHENA_CATALOG", key |-> "catalog"],
       [name |-> "ATHENA_OUTPUT", key |-> "output"] >>

SettingEnvNames == { SyncCalls[i].name : i \in 1..Len(SyncCalls) }

SettingKeys == { SyncCalls[i].key : i \in 1..Len(SyncCalls) }

\* a value a variable may hold when the process starts, besides "" and absence
StartValue(name) ==
    CASE name = "AWS_REGION" -> "us-east-1"
      [] name = "AWS_DEFAULT_REGION" -> "eu-west-1"
      [] name = "ATHENA_DATABASE" -> "db"
      [] name = "ATHENA_WORKGROUP" -> "wg"
      [] name = "ATHENA_CATALOG" -> "AwsDataCatalog"
      [] name = "ATHENA_OUTPUT" -> "s3://out"

\* os.environ at process start
StartEnvs ==
    { env \in [SettingEnvNames -> {Unset, "", "us-east-1", "eu-west-1", "db", "wg",
                                   "AwsDataCatalog", "s3://out"}] :
        \A n \in SettingEnvNames : env[n] \in {Unset, "", StartValue(n)} }

\* what the user may leave in the sidebar text fields; a text field is a str
SidebarFields ==
    [region : {"", "us-east-1", "eu-west-1"},
     database : {"", "db"},
     workgroup : {"", "wg"},
     catalog : {"", "AwsDataCatalog"},
     output : {"", "s3://out"}]

\* os.getenv(name, default)
GetenvDefault(env, name, default) == IF env[name] = Unset THEN default ELSE env[name]

\* load_athena_settings, the fields of the AthenaSettings it builds
LoadAthenaSettings(env) ==
    [region |-> OrElse(env["AWS_REGION"], OrElse(env["AWS_DEFAULT_REGION"], "us-east-1")),
     database |-> OrElse(env["ATHENA_DATABASE"], "super_store_data"),
     workgroup |-> OrElse(env["ATHENA_WORKGROUP"], Unset),
     catalog |-> OrElse(env["ATHENA_CATALOG"], "AwsDataCatalog"),
     output |-> OrElse(env["ATHENA_OUTPUT"], Unset)]

\* the values the sidebar fields show on the first run of the script
SidebarDefaults(env) ==
    [region |-> OrElse(env["AWS_REGION"], OrElse(env["AWS_DEFAULT_REGION"], "us-east-1")),
     database |-> GetenvDefault(env, "ATHENA_DATABASE", ""),
     workgroup |-> GetenvDefault(env, "ATHENA_WORKGROUP", ""),
     catalog |-> GetenvDefault(env, "ATHENA_CATALOG", "AwsDataCatalog"),
     output |-> GetenvDefault(env, "ATHENA_OUTPUT", "")]

\* set_env_var of src/src/settings.py: None pops the variable, any str is stored
SettingsSetEnvVar(env, name, value) ==
    IF value = Unset
    THEN [env EXCEPT ![name] = Unset]
    ELSE [env EXCEPT ![name] = value]

\* a set_env_var that stores non-empty values and otherwise leaves the variable
UiSetEnvVarKeepsOld(env, name, value) ==
    IF Truthy(value) THEN [env EXCEPT ![name] = value] ELSE env

\* set_env_var of src/ui.py: None returns, a non-empty str is stored, the empty
\* str deletes the variable when it is there
UiSetEnvVar(env, name, value) ==
    IF value = Unset
    THEN env
    ELSE IF value # ""
    THEN [env EXCEPT ![name] = value]
    ELSE IF env[name] # Unset
    THEN [env EXCEPT ![name] = Unset]
    ELSE env

NoSettings == [k \in SettingKeys |-> Unset]

NoEnviron == [n \in SettingEnvNames |-> Unset]

CfgIdle ==
    /\ cfg_pc = "off"
    /\ cfg_entry = "app"
    /\ cfg_environ = NoEnviron
    /\ cfg_before = NoEnviron
    /\ cfg_values = NoSettings
    /\ cfg_step = 0

\* the process starts with some environment
CfgInit ==
    /\ cfg_pc = "start"
    /\ cfg_entry \in {"app", "ui"}
    /\ cfg_environ \in StartEnvs
    /\ cfg_before = cfg_environ
    /\ cfg_values = NoSettings
    /\ cfg_step = 0

\* run_app: settings = load_athena_settings(), up to the call of settings.apply()
CfgLoad ==
    /\ cfg_pc = "start"
    /\ cfg_entry = "app"
    /\ cfg_values' = LoadAthenaSettings(cfg_environ)
    /\ cfg_before' = cfg_environ
    /\ cfg_pc' = "syncing"
    /\ cfg_step' = 0
    /\ UNCHANGED <<cfg_entry, cfg_environ, notCfg>>

\* the first run of the script of src/ui.py: the fields show their defaults
CfgUiFirstRun ==
    /\ cfg_pc = "start"
    /\ cfg_entry = "ui"
    /\ cfg_values' = SidebarDefaults(cfg_environ)
    /\ cfg_before' = cfg_environ
    /\ cfg_pc' = "syncing"
    /\ cfg_step' = 0
    /\ UNCHANGED <<cfg_entry, cfg_environ, notCfg>>

\* a later run of the script: the fields hold what the user left in them
CfgUiRerun ==
    /\ cfg_pc = "synced"
    /\ cfg_entry = "ui"
    /\ \E fields \in SidebarFields : cfg_values' = fields
    /\ cfg_before' = cfg_environ
    /\ cfg_pc' = "syncing"
    /\ cfg_step' = 0
    /\ UNCHANGED <<cfg_entry, cfg_environ, notCfg>>

\* the next set_env_var call of the sync
CfgSetEnvVar ==
    /\ cfg_pc = "syncing"
    /\ cfg_step < Len(SyncCalls)
    /\ LET call == SyncCalls[cfg_step + 1]
       IN  cfg_environ' =
              IF cfg_entry = "app"
              THEN SettingsSetEnvVar(cfg_environ, call.name, cfg_values[call.key])
              ELSE UiSetEnvVar(cfg_environ, call.name, cfg_values[call.key])
    /\ cfg_step' = cfg_step + 1
    /\ cfg_pc' = IF cfg_step + 1 = Len(SyncCalls) THEN "synced" ELSE "syncing"
    /\ UNCHANGED <<cfg_entry, cfg_before, cfg_values, notCfg>>

SettingsNext ==
    \/ CfgLoad
    \/ CfgUiFirstRun
    \/ CfgUiRerun
    \/ CfgSetEnvVar

-----------------------------------------------------------------------------
(* Specifications *)

\* the process environment when the query client is not the subject
QuietEnv == [n \in EnvNames |-> Unset]

ExtractIdle ==
    /\ ex_pc = "done"
    /\ raw_text = <<>>
    /\ sql_out = <<>>

QueryIdle ==
    /\ QueryInit
    /\ environ = QuietEnv

TurnIdle ==
    /\ TurnInit
    /\ entry = "app"

RecIdle ==
    /\ rec_pc = "done"
    /\ rec_columns = <<>>
    /\ rec_rows = <<>>
    /\ rec_records = <<>>
    /\ rec_message = ErrorMessage(<<>>)

ChartIdle ==
    /\ ch_pc = "done"
    /\ ch_records = <<>>
    /\ ch_y = Unset
    /\ ch_x = Unset
    /\ ch_spec = <<>>

NormIdle ==
    /\ nv_pc = "done"
    /\ nv_fn = "app"
    /\ nv_value = PyNone
    /\ nv_steps = 0
    /\ nv_outcome = NotCalled
    /\ nv_again = NotCalled

\* _extract_sql over every raw text of up to MaxTextLen tokens
InitExtract ==
    /\ ExtractInit
    /\ QueryIdle
    /\ TurnIdle
    /\ RecIdle
    /\ ChartIdle
    /\ NormIdle
    /\ CatIdle
    /\ CfgIdle

SpecExtract == InitExtract /\ [][ExtractNext]_vars

\* run_athena_query, call after call in one process
InitQuery ==
    /\ ExtractIdle
    /\ QueryInit
    /\ TurnIdle
    /\ RecIdle
    /\ ChartIdle
    /\ NormIdle
    /\ CatIdle
    /\ CfgIdle

SpecQuery == InitQuery /\ [][QueryNext]_vars

\* the chat session of either entry point, turn after turn
InitTurn ==
    /\ ExtractIdle
    /\ QueryIdle
    /\ TurnInit
    /\ RecIdle
    /\ ChartIdle
    /\ NormIdle
    /\ CatIdle
    /\ CfgIdle

SpecTurn == InitTurn /\ [][TurnNext]_vars

\* records_from_table over every table of up to MaxCols columns and
\* MaxTableRows rows, and the response built from it
InitRecords ==
    /\ ExtractIdle
    /\ QueryIdle
    /\ TurnIdle
    /\ RecInit
    /\ ChartIdle
    /\ NormIdle
    /\ CatIdle
    /\ CfgIdle

SpecRecords == InitRecords /\ [][RecNext]_vars

\* _build_chart over records whose first record has up to MaxFields keys
InitChart ==
    /\ ExtractIdle
    /\ QueryIdle
    /\ TurnIdle
    /\ RecIdle
    /\ ChartInit
    /\ NormIdle
    /\ CatIdle
    /\ CfgIdle

SpecChart == InitChart /\ [][ChartNext]_vars

\* as_text and _as_text over every value of up to MaxSteps building steps
InitNorm ==
    /\ ExtractIdle
    /\ QueryIdle
    /\ TurnIdle
    /\ RecIdle
    /\ ChartIdle
    /\ NormInit
    /\ CatIdle
    /\ CfgIdle

SpecNorm == InitNorm /\ [][NormNext]_vars

\* the catalog tools, call after call in one process
InitCatalog ==
    /\ ExtractIdle
    /\ ProcessInit
    /\ CallIdle
    /\ WaitIdle
    /\ FetchIdle
    /\ TurnIdle
    /\ RecIdle
    /\ ChartIdle
    /\ NormIdle
    /\ CatIdle
    /\ CfgIdle

SpecCatalog == InitCatalog /\ [][CatalogNext]_vars

\* the settings of a process: the sync at start, and the syncs of later runs of
\* the script of src/ui.py
InitSettings ==
    /\ ExtractIdle
    /\ QueryIdle
    /\ TurnIdle
    /\ RecIdle
    /\ ChartIdle
    /\ NormIdle
    /\ CatIdle
    /\ CfgInit

SpecSettings == InitSettings /\ [][SettingsNext]_vars

\* the remote calls of the program: a process either serves chat turns, with
\* the query client seen from outside, or makes run_athena_query calls, with
\* the session left alone
InitRemote == InitTurn \/ InitQuery

RemoteNext ==
    \/ QueryIdle /\ TurnNext
    \/ TurnIdle /\ QueryNext

SpecRemote == InitRemote /\ [][RemoteNext]_vars

\* _wait_for_query called on its own, call after call; the statements of the
\* loop follow one another, so each of them is taken once it can be
InitWait ==
    /\ ExtractIdle
    /\ QueryIdle
    /\ TurnIdle
    /\ RecIdle
    /\ ChartIdle
    /\ NormIdle
    /\ CatIdle
    /\ CfgIdle

SpecWait ==
    /\ InitWait
    /\ [][WaitNext]_vars
    /\ WF_vars(WaitPoll)
    /\ WF_vars(WaitDeadline)
    /\ WF_vars(WaitSleep)

\* the way of a model output to the statement that is run: the extractor on
\* raw texts of every shape, or chat turns with the agent's replies
InitSqlPath == InitExtract \/ InitTurn

SqlPathNext ==
    \/ TurnIdle /\ ExtractNext
    \/ ExtractIdle /\ TurnNext

SpecSqlPath == InitSqlPath /\ [][SqlPathNext]_vars

-----------------------------------------------------------------------------
(* Claim-side vocabulary for texts (independent of the regular expressions) *)

\* s is t with leading and trailing spaces removed
IsTrimOf(s, t) ==
    /\ (s # <<>> => ~IsSpace(s[1]) /\ ~IsSpace(s[Len(s)]))
    /\ \E a \in 0..Len(t), b \in 0..Len(t) :
          /\ a + Len(s) + b = Len(t)
          /\ \A k \in 1..a : IsSpace(t[k])
          /\ \A k \in 1..b : IsSpace(t[Len(t) + 1 - k])
          /\ s = SubSeq(t, a + 1, a + Len(s))

IsSqlWord(c) == c \in {"sql", "SQL"}
IsSelectWord(c) == c \in {"select", "SELECT"}

\* positions of an opening marker that is followed later by a closing fence
BlockOpens(t) ==
    {i \in 1..(Len(t) - 2) :
        /\ t[i] = Fence
        /\ IsSqlWord(t[i + 1])
        /\ \E j \in (i + 2)..Len(t) : t[j] = Fence}

HasFencedBlock(t) == BlockOpens(t) # {}

\* the inner text of the first well-formed block
FirstBlockInner(t) ==
    LET i == Min(BlockOpens(t))
        j == Min({k \in (i + 2)..Len(t) : t[k] = Fence})
    IN  SubSeq(t, i + 2, j - 1)

\* positions where select stands as a word of its own
KeywordAt(t) ==
    {i \in 1..Len(t) :
        /\ IsSelectWord(t[i])
        /\ (i > 1 => ~IsWord(t[i - 1]))
        /\ (i < Len(t) => ~IsWord(t[i + 1]))}

HasSelectKeyword(t) == KeywordAt(t) # {}

-----------------------------------------------------------------------------
\* C3: for every raw text holding a well-formed fenced sql block (marker in any
\* letter case, a closing fence later), _extract_sql returns exactly the trimmed
\* inner text of the first such block, whatever surrounds the block.
C3_FencedBlockExtracted ==
    (ex_pc = "done" /\ HasFencedBlock(raw_text))
        => IsTrimOf(sql_out, FirstBlockInner(raw_text))

\* C3 witness: an upper-case marker with prose containing select before the
\* block and more text after it; the inner text came back trimmed.
C3_Witness ==
    /\ ex_pc = "done"
    /\ HasFencedBlock(raw_text)
    /\ Min(BlockOpens(raw_text)) > 1
    /\ IsSelectWord(raw_text[1])
    /\ raw_text[Min(BlockOpens(raw_text)) + 1] = "SQL"
    /\ sql_out = <<"x">>
    /\ Len(FirstBlockInner(raw_text)) > 1

\* C4 (as stated): with no fenced block but a select keyword somewhere, the result
\* is the text from the first keyword occurrence to the end, trimmed, hence
\* non-empty and starting with select.
C4_Original ==
    (ex_pc = "done" /\ ~HasFencedBlock(raw_text) /\ HasSelectKeyword(raw_text))
        => /\ IsTrimOf(sql_out, SubSeq(raw_text, Min(KeywordAt(raw_text)), Len(raw_text)))
           /\ sql_out # <<>>
           /\ IsSelectWord(sql_out[1])

\* C4 (amended): with no fenced block but a select keyword that is followed by at
\* least one more character, the result is the text from the first keyword
\* occurrence to the end, trimmed; it is non-empty and starts with select.  A
\* keyword that ends the text is not matched and the result is empty.
C4_SelectFallback ==
    (ex_pc = "done" /\ ~HasFencedBlock(raw_text))
        => /\ ((\E i \in KeywordAt(raw_text) : i < Len(raw_text))
                => /\ IsTrimOf(sql_out,
                               SubSeq(raw_text, Min(KeywordAt(raw_text)), Len(raw_text)))
                   /\ sql_out # <<>>
                   /\ IsSelectWord(sql_out[1]))
           /\ (KeywordAt(raw_text) = {Len(raw_text)} => sql_out = <<>>)

\* C4 witness: prose, then an upper-case SELECT followed by text and trailing
\* space; the fallback returned the keyword and what follows, trimmed.
C4_Witness ==
    /\ ex_pc = "done"
    /\ ~HasFencedBlock(raw_text)
    /\ Len(raw_text) >= 4
    /\ HasSelectKeyword(raw_text)
    /\ Min(KeywordAt(raw_text)) = 3
    /\ raw_text[3] = "SELECT"
    /\ IsSpace(raw_text[Len(raw_text)])
    /\ sql_out = SubSeq(raw_text, 3, Len(raw_text) - 1)
    /\ Len(sql_out) >= 2

-----------------------------------------------------------------------------
(* Claim-side vocabulary for the query client *)

Contains(msg, part) == \E i \in 1..Len(msg) : msg[i] = part

TerminalStates == {"SUCCEEDED", "FAILED", "CANCELLED"}

\* the wait has handed a state back to run_athena_query
WaitReturned == q_pc \in {"waited", "fetch", "returned"} \/ w_state \in TerminalStates

RECURSIVE FlatRows(_)
FlatRows(pages) ==
    IF pages = <<>> THEN <<>> ELSE Head(pages).rows \o FlatRows(Tail(pages))

Take(s, n) == SubSeq(s, 1, IF Len(s) < n THEN Len(s) ELSE n)

\* the delivered rows after the header row that opens the first page, as cell texts
DeliveredData(pages) ==
    LET data == Tail(FlatRows(pages))
    IN  [i \in 1..Len(data) |-> [k \in 1..Len(data[i]) |->
            IF data[i][k] = Null THEN "" ELSE data[i][k]]]

-----------------------------------------------------------------------------
\* C2 (as stated): a wait whose polls see no terminal state before timeout_s has
\* elapsed raises TimeoutError and never returns; a timed-out call returns no
\* dictionary and fetches no page; only terminal states are returned.
C2_Original ==
    /\ (WaitReturned => ~w_poll_late)
    /\ (WaitReturned => w_state \in TerminalStates)
    /\ (q_outcome.exc = "TimeoutError"
          => q_outcome.kind = "raised" /\ delivered = <<>> /\ q_outcome.rows = <<>>)

\* C2 (amended): a wait whose polls all see a non-terminal state never returns,
\* and it raises TimeoutError at the first deadline test made after timeout_s
\* has elapsed (so it never sleeps again once the deadline has passed); a poll
\* made after timeout_s has elapsed that sees a terminal state still returns it.
\* A timed-out call ends in TimeoutError with no dictionary, no columns, no rows
\* and no result page fetched.  Only terminal states are ever returned.
C2_WaitTimeout ==
    /\ (q_pc \in {"waited", "fetch", "returned"} => w_state \in TerminalStates)
    /\ (q_pc = "sleep" => elapsed <= w_timeout /\ w_state \notin TerminalStates)
    /\ (q_pc = "poll" => elapsed <= w_timeout + PollS + MaxJitter)
    /\ (w_checked_late
          => /\ q_pc = "raised"
             /\ q_outcome = Raised("TimeoutError", TimeoutMessage)
             /\ w_state \in {"QUEUED", "RUNNING"})
    /\ (q_outcome.exc = "TimeoutError"
          => /\ w_checked_late
             /\ q_outcome.kind = "raised"
             /\ q_outcome.columns = <<>>
             /\ q_outcome.rows = <<>>
             /\ delivered = <<>>
             /\ rows_seen = 0)

\* C2 witness: the query stayed RUNNING and the call ended in TimeoutError.
C2_Witness ==
    /\ q_pc = "raised"
    /\ q_outcome.exc = "TimeoutError"
    /\ w_state = "RUNNING"
    /\ q_started = 1
    /\ delivered = <<>>

\* C6: when the polled execution ends FAILED or CANCELLED, run_athena_query raises
\* an error whose message holds the state and the StateChangeReason ("Unknown
\* error" when the response has none); no result page is requested, no rows are
\* returned.
C6_FailedStateRaises ==
    /\ (q_pc = "fetch" => w_state = "SUCCEEDED")
    /\ (q_outcome.kind = "returned" => w_state = "SUCCEEDED")
    /\ ((w_state \in {"FAILED", "CANCELLED"} /\ q_pc # "waited")
          => /\ q_pc = "raised"
             /\ q_outcome.kind = "raised"
             /\ q_outcome.exc = "RuntimeError"
             /\ Contains(q_outcome.msg, w_state)
             /\ Contains(q_outcome.msg,
                         IF w_reason = Unset THEN "Unknown error" ELSE w_reason)
             /\ q_outcome.rows = <<>>
             /\ delivered = <<>>)

\* C6 witness: a CANCELLED query without a reason ended the call with the
\* "Unknown error" message.
C6_Witness ==
    /\ q_pc = "raised"
    /\ w_state = "CANCELLED"
    /\ w_reason = Unset
    /\ q_outcome.msg = <<"Athena query ", "CANCELLED", ": ", "Unknown error">>

\* C7: run_athena_query with an empty or non-string sql raises the validation
\* error before any remote call: _athena_clients is not called, no query
\* execution is started, and the client cache stays as it was.
C7_EmptySqlRejected ==
    /\ []((q_pc # "idle" /\ (q_sql.text = <<>> \/ ~q_sql.is_str))
            => /\ q_pc = "raised"
               /\ q_outcome = Raised("ValueError", <<"sql is required">>)
               /\ q_lookups = 0
               /\ q_started = 0
               /\ delivered = <<>>)
    /\ [][(q_sql'.text = <<>> \/ ~q_sql'.is_str)
            => client_cache' = client_cache /\ creations' = creations]_vars

\* C7 witness: a truthy non-string sql was rejected while the cache already held
\* a client pair from an earlier call.
C7_Witness ==
    /\ q_pc = "raised"
    /\ ~q_sql.is_str
    /\ q_sql.text # <<>>
    /\ client_cache # {}
    /\ q_lookups = 0

\* C8 (as stated): for every max_rows >= 0 a successful call returns at most
\* max_rows rows, asks for a further page only while fewer than max_rows rows are
\* collected, and looks at no row after the one that reached the limit.
C8_Original ==
    /\ (q_pc = "returned" => Len(q_outcome.rows) <= q_max_rows)
    /\ ((q_pc = "fetch" /\ delivered # <<>>) => count < q_max_rows)
    /\ ((q_pc = "returned" /\ q_max_rows >= 1 /\ Len(q_outcome.rows) >= q_max_rows)
          => DeliveredData(delivered)[rows_seen - 1] = q_outcome.rows[Len(q_outcome.rows)])

\* C9 (as stated): the returned columns are the first page's column names and
\* the returned rows are all delivered rows but the header that opens the first
\* page, in service order, cut at max_rows (stated here for max_rows >= 1).
C9_Original ==
    (q_pc = "returned" /\ q_max_rows >= 1)
        => /\ q_outcome.columns = delivered[1].columns
           /\ q_outcome.rows = Take(DeliveredData(delivered), q_max_rows)

-----------------------------------------------------------------------------
(* Claims about the turn *)

ArtifactFields == {"sql", "table", "table_records", "vega_spec", "llm_cost"}

LastMessage == messages[Len(messages)]

TurnEnded == t_pc = "awaiting_input" /\ prompt # <<>>

\* C1 as stated: in both entry points, whenever the query-client call of a
\* turn raises an exception, whatever its message (the empty one included),
\* the turn appends exactly one assistant message, whose content is "Error: "
\* followed by the exception message, and which carries none of the fields
\* sql, table, table_records, vega_spec, llm_cost.
C1_Original ==
    query_raised # <<>> =>
        /\ t_pc \in {"running_query", "awaiting_input"}
        /\ TurnEnded =>
              /\ Len(messages) >= 2
              /\ messages[Len(messages) - 1] = UserMessage(prompt)
              /\ LastMessage.role = "assistant"
              /\ LastMessage.content = <<"Error: ">> \o query_raised[1]
              /\ DOMAIN LastMessage \cap ArtifactFields = {}

\* C5: a model output with neither a fenced sql block nor a select keyword
\* makes the extractor return the empty string, and the turn then ends at once
\* with the error "Failed to extract SQL from the model output.", run_athena_query
\* having never been invoked in that turn.
C5_NoSqlEndsTurn ==
    (/\ sql_text_full # <<>>
     /\ ~HasFencedBlock(sql_text_full[1])
     /\ ~HasSelectKeyword(sql_text_full[1])) =>
        /\ sql_to_run = <<>>
        /\ query_calls = 0
        /\ TurnEnded
        /\ Len(messages) >= 2
        /\ messages[Len(messages) - 1] = UserMessage(prompt)
        /\ LastMessage =
              [role |-> "assistant",
               content |-> <<"Error: ", "Failed to extract SQL from the model output.">>]

C5_Witness ==
    /\ entry = "ui"
    /\ sql_text_full = <<<<"x">>>>
    /\ agent_calls = 1
    /\ query_calls = 0
    /\ TurnEnded
    /\ LastMessage.content = <<"Error: ", "Failed to extract SQL from the model output.">>

-----------------------------------------------------------------------------
(* Claims about records_from_table *)

\* the last position at which a name occurs in a column list
LastIndex(cs, name) ==
    CHOOSE i \in 1..Len(cs) : cs[i] = name /\ \A j \in (i + 1)..Len(cs) : cs[j] # name

\* the raw cell of a row at a position, None past its end
RawCell(row, i) == IF i <= Len(row) THEN row[i] ELSE Unset

RecordKeySet(record) == {record[i].key : i \in 1..Len(record)}

SameRecordsEverywhere ==
    /\ rec_message.table_records = rec_records
    /\ rec_message.table = [columns |-> rec_columns, rows |-> rec_rows]
    /\ "vega_spec" \in DOMAIN rec_message => rec_message.vega_spec.data.values = rec_records

\* C10 as stated: one record per row in row order; each record maps every
\* column name to the raw cell at the same index of the row, None past the end
\* of a short row, cells beyond the last column ignored; the message and the
\* chart spec hold these same records.
C10_Original ==
    rec_pc = "done" =>
        /\ Len(rec_records) = Len(rec_rows)
        /\ \A r \in 1..Len(rec_rows) :
              /\ RecordKeySet(rec_records[r]) = {rec_columns[i] : i \in 1..Len(rec_columns)}
              /\ \A i \in 1..Len(rec_columns) :
                    Field(rec_records[r], rec_columns[i]) = RawCell(rec_rows[r], i)
        /\ SameRecordsEverywhere

\* C10, amended: one record per row in row order; each record has exactly the
\* column names as keys, each once, and maps a name to the raw cell, unchanged,
\* at the index of the name's last occurrence in the column list (its only
\* index when the names are distinct), None when that index is past the end of
\* the row; cells beyond the last column are ignored; the message and the
\* chart spec hold these same records.
C10_RecordsFromTable ==
    rec_pc = "done" =>
        /\ Len(rec_records) = Len(rec_rows)
        /\ \A r \in 1..Len(rec_rows) :
              /\ RecordKeySet(rec_records[r]) = {rec_columns[i] : i \in 1..Len(rec_columns)}
              /\ Len(rec_records[r]) = Cardinality(RecordKeySet(rec_records[r]))
              /\ \A i \in 1..Len(rec_columns) :
                    Field(rec_records[r], rec_columns[i]) =
                        RawCell(rec_rows[r], LastIndex(rec_columns, rec_columns[i]))
        /\ SameRecordsEverywhere

C10_Witness ==
    /\ rec_pc = "done"
    /\ rec_columns = <<"region", "Sales">>
    /\ rec_rows = <<<<"West", "98", "7">>, <<"East">>>>
    /\ rec_records = << <<[key |-> "region", value |-> "West"], [key |-> "Sales", value |-> "98"]>>,
                        <<[key |-> "region", value |-> "East"], [key |-> "Sales", value |-> Unset]>> >>
    /\ "vega_spec" \in DOMAIN rec_message
    /\ rec_message.vega_spec.data.values = rec_records

-----------------------------------------------------------------------------
(* Claims about _build_chart *)

\* a key equals a name when letter case is ignored
SameIgnoringCase(k, name) == k = name \/ (k = "Sales" /\ name = "sales")

\* the place of the preference list whose name a key equals, ignoring case
PreferenceRank(k) == CHOOSE p \in 1..Len(Preferred) : SameIgnoringCase(k, Preferred[p])

\* the positions of the first record whose key is on the preference list
PreferredPositions(sample) ==
    {i \in 1..Len(sample) : \E p \in 1..Len(Preferred) : SameIgnoringCase(sample[i].key, Preferred[p])}

\* the texts that parse as a number
NumberTexts == {"98", "7", "12", "3"}

NumberPositions(sample) == {i \in 1..Len(sample) : sample[i].value \in NumberTexts}

\* C11: the y-field follows the preference list, not the key order and not
\* whether a value is numeric: when the first record has a key that equals,
\* ignoring case, a name of the list, the y-field is a key matching the
\* earliest such name, even when another key with a numeric value comes
\* earlier in the record; only when no key matches is it the first key whose
\* value parses as a number; the chart, when built, plots that y-field.
C11_PreferenceOrder ==
    (ch_pc = "done" /\ ch_records # <<>>) =>
        LET sample == ch_records[1]
            listed == PreferredPositions(sample)
            numbers == NumberPositions(sample)
        IN  /\ listed # {} =>
                  \E i \in listed :
                      /\ ch_y = sample[i].key
                      /\ \A j \in listed :
                            PreferenceRank(sample[i].key) <= PreferenceRank(sample[j].key)
            /\ (listed = {} /\ numbers # {}) =>
                  \E i \in numbers :
                      /\ ch_y = sample[i].key
                      /\ \A j \in numbers : i <= j
            /\ (listed = {} /\ numbers = {}) => ch_y = Unset
            /\ ch_spec # <<>> => ch_spec[1].encoding.y.field = ch_y

\* a numeric unlisted key, then a key of a late list entry, then the key of the
\* first list entry: the last one is plotted
C11_Witness ==
    /\ ch_pc = "done"
    /\ Len(ch_records) = 2
    /\ ch_records[1] = <<[key |-> "qty", value |-> "98"],
                         [key |-> "count", value |-> "98"],
                         [key |-> "Sales", value |-> "West"]>>
    /\ ch_y = "Sales"
    /\ ch_spec # <<>>
    /\ ch_spec[1].encoding.y.field = "Sales"

\* C12: nothing is returned when the records are empty, when no y-field is
\* resolved, or when the first record has no key other than the y-field;
\* otherwise the x-field is the first key of the first record that differs from
\* the y-field, so the two are never the same key, and the spec is a bar mark
\* over the records with x nominal sorted "-y" and y quantitative.
C12_ChartOrNothing ==
    ch_pc = "done" =>
        LET nothing ==
                \/ ch_records = <<>>
                \/ ch_y = Unset
                \/ \A i \in 1..Len(ch_records[1]) : ch_records[1][i].key = ch_y
        IN  /\ nothing <=> ch_spec = <<>>
            /\ ~nothing =>
                  LET sample == ch_records[1]
                      spec == ch_spec[1]
                  IN  /\ \E i \in 1..Len(sample) :
                            /\ ch_x = sample[i].key
                            /\ \A j \in 1..(i - 1) : sample[j].key = ch_y
                      /\ ch_x # ch_y
                      /\ spec.mark = "bar"
                      /\ spec.data.values = ch_records
                      /\ spec.encoding.x = [field |-> ch_x, type |-> "nominal", sort |-> "-y"]
                      /\ spec.encoding.y = [field |-> ch_y, type |-> "quantitative"]

\* the y-field is the first key, so the x-field is the second one
C12_Witness ==
    /\ ch_pc = "done"
    /\ ch_records # <<>>
    /\ Len(ch_records[1]) >= 2
    /\ ch_records[1][1].key = "sales"
    /\ ch_y = "sales"
    /\ ch_x = ch_records[1][2].key
    /\ ch_spec # <<>>
    /\ ch_spec[1].encoding.x.field = ch_x

-----------------------------------------------------------------------------
(* Claims about charts in the history *)

\* a letter without its case
FoldCase(c) == IF c \in {"P", "p"} THEN "p" ELSE c

\* the prompt contains one of the chart keywords, letter case ignored
MentionsChartWord(p) ==
    \E w \in ChartKeywords :
        \E i \in 0..(Len(p) - Len(w)) :
            \A j \in 1..Len(w) : FoldCase(p[i + j]) = w[j]

\* C13: an assistant message carries a vega_spec only if the prompt it
\* answers contains, letter case ignored, one of the keywords chart, plot,
\* graph, visualize, visualisation, visualization, bar, line, scatter,
\* histogram, and the query returned at least one record; the answer to a
\* prompt with none of these keywords never carries one.
C13_ChartOnlyOnRequest ==
    \A i \in 1..Len(messages) :
        /\ "vega_spec" \in DOMAIN messages[i] =>
              /\ i > 1
              /\ messages[i].role = "assistant"
              /\ messages[i - 1].role = "user"
              /\ MentionsChartWord(messages[i - 1].content)
              /\ messages[i].table.rows # <<>>
              /\ messages[i].table_records # <<>>
        /\ (messages[i].role = "user" /\ ~MentionsChartWord(messages[i].content)
                /\ i < Len(messages)) =>
              "vega_spec" \notin DOMAIN messages[i + 1]

\* a chart for "Plot" in one entry point, none for "top" over the same rows
C13_Witness ==
    /\ Len(messages) = 4
    /\ messages[1] = UserMessage(<<"P", "l", "o", "t">>)
    /\ "vega_spec" \in DOMAIN messages[2]
    /\ messages[2].table_records # <<>>
    /\ messages[3] = UserMessage(<<"t", "o", "p">>)
    /\ "table_records" \in DOMAIN messages[4]
    /\ messages[4].table_records # <<>>
    /\ "vega_spec" \notin DOMAIN messages[4]

-----------------------------------------------------------------------------
(* Claims about the history as a whole *)

\* every element of a keeps its position and its content in b
IsPrefixOf(a, b) == Len(a) <= Len(b) /\ SubSeq(b, 1, Len(a)) = a

\* C14: the message history is append-only: in every step every message
\* already in the history keeps its position and its content; only the
\* "Reset conversation" action removes messages, and it leaves the history
\* empty.
C14_AppendOnly ==
    [][IF ResetConversation THEN messages' = <<>> ELSE IsPrefixOf(messages, messages')]_vars

\* two turns of the entry point that has the reset button: the error of the
\* first is still in place after the second
C14_Witness ==
    /\ entry = "ui"
    /\ Len(messages) = 4
    /\ messages[1].role = "user"
    /\ messages[2] = ErrorMessage(<<"throttled">>)
    /\ messages[3].role = "user"
    /\ "sql" \in DOMAIN messages[4]

-----------------------------------------------------------------------------
(* Claims about the turn after a failure *)

\* an assistant message that reports an error: nothing but role and content
IsErrorMessage(m) ==
    /\ DOMAIN m = {"role", "content"}
    /\ m.role = "assistant"
    /\ m.content # <<>>
    /\ m.content[1] = "Error: "

\* the latest turn ended in the error state
EndedInError ==
    /\ prompt # <<>>
    /\ t_pc # "generating_sql"
    /\ t_pc # "running_query"
    /\ t_pc # "explaining"
    /\ messages # <<>>
    /\ IsErrorMessage(LastMessage)

\* C15: no failure is fatal to the session.  After a turn that ended in the
\* error state the next prompt can be submitted; submitting it keeps the
\* error message in the history, appends the user message, and starts the
\* turn with the locals of a fresh session (no agent call and no query made
\* yet, only the SQL instruction recorded, fresh holders); and a turn that
\* succeeds right after a failed one has invoked the agent, extracted the SQL
\* and run the query once.
C15_NoFailureIsFatal ==
    /\ [](EndedInError /\ Len(messages) < 2 * MaxTurns => ENABLED SubmitPrompt)
    /\ [][(EndedInError /\ SubmitPrompt /\ Truthy(settings.database)) =>
             /\ messages' = Append(messages, UserMessage(prompt'))
             /\ IsErrorMessage(messages'[Len(messages)])
             /\ t_pc' = "generating_sql"
             /\ in_texts' = <<SqlInstruction(entry, prompt')>>
             /\ out_texts' = <<>>
             /\ sql_text_full' = <<>>
             /\ sql_to_run' = <<>>
             /\ agent_calls' = 0
             /\ query_calls' = 0
             /\ query_raised' = <<>>
             /\ sql_holder' = FreshHolder
             /\ query_holder' = FreshHolder
             /\ explain_holder' = FreshHolder
             /\ res_table' = NoTable
             /\ chart_spec' = <<>>]_vars
    /\ []((/\ TurnEnded
           /\ Len(messages) >= 4
           /\ IsErrorMessage(messages[Len(messages) - 2])
           /\ "sql" \in DOMAIN LastMessage) =>
             /\ agent_calls >= 1
             /\ sql_text_full # <<>>
             /\ sql_to_run = ExtractSql(sql_text_full[1])
             /\ sql_to_run # <<>>
             /\ LastMessage.sql = sql_to_run
             /\ query_calls = 1)

\* a timeout of the query, then a turn that delivers rows
C15_Witness ==
    /\ entry = "app"
    /\ TurnEnded
    /\ Len(messages) = 4
    /\ messages[2] = ErrorMessage(TimeoutMessage)
    /\ "sql" \in DOMAIN LastMessage
    /\ LastMessage.table.rows # <<>>
    /\ agent_calls = 1
    /\ query_calls = 1

-----------------------------------------------------------------------------
(* Claims about the response normalizer *)

\* C16 as stated: the normalizer is total: for every input value (None, a
\* string, a mapping, a list or tuple, nested combinations of these, an opaque
\* object with or without the attributes text, content, message, output,
\* response) it returns a string and never raises.
C16_Original ==
    nv_pc = "done" => nv_outcome.kind = "returned"

\* the fixed order in which a mapping is searched
FixedOrder == <<"text", "content", "message", "output", "response">>

\* the normalization of a value by the normalizer under test
Normalization(v) == AsTextOutcome(nv_fn, v)

\* what the claim says a mapping normalizes to, the last case left open
MappingRule(v, otherwise) ==
    IF HasKey(v, "role") /\ HasKey(v, "content")
    THEN nv_outcome = Normalization(Lookup(v, "content"))
    ELSE IF \E i \in 1..Len(FixedOrder) : HasKey(v, FixedOrder[i])
    THEN \E i \in 1..Len(FixedOrder) :
            /\ HasKey(v, FixedOrder[i])
            /\ \A j \in 1..(i - 1) : ~HasKey(v, FixedOrder[j])
            /\ nv_outcome = Normalization(Lookup(v, FixedOrder[i]))
    ELSE otherwise

\* C17 as stated: a mapping with both role and content normalizes to the
\* normalization of its content value; otherwise to the normalization of the
\* value of the first key present in the order text, content, message, output,
\* response, later keys being ignored; otherwise to the JSON serialization of
\* the mapping.
C17_Original ==
    (nv_pc = "done" /\ nv_value.tag = "dict") =>
        MappingRule(nv_value,
                    Serializable(nv_value) /\ nv_outcome = TextReturned(JsonDumps(nv_value)))

\* C17, amended: as above, except that a mapping with none of the keys that
\* cannot be serialized as JSON normalizes to its str() text.
C17_MappingRule ==
    (nv_pc = "done" /\ nv_value.tag = "dict") =>
        MappingRule(nv_value,
                    nv_outcome = TextReturned(IF Serializable(nv_value)
                                              THEN JsonDumps(nv_value)
                                              ELSE <<"<dict repr>">>))

\* text is present and empty, content is not: the result is empty
C17_Witness ==
    /\ nv_pc = "done"
    /\ nv_value = PyDict(<<"text", "content">>, <<PyStr(<<>>), PyStr(<<"ab">>)>>)
    /\ nv_outcome = TextReturned(<<>>)

\* parts joined from the last one backwards
RECURSIVE Glue(_, _)
Glue(parts, sep) ==
    IF parts = <<>> THEN <<>>
    ELSE IF Len(parts) = 1 THEN parts[1]
    ELSE Glue(SubSeq(parts, 1, Len(parts) - 1), sep) \o sep \o parts[Len(parts)]

RECURSIVE TotalLength(_)
TotalLength(parts) ==
    IF parts = <<>> THEN 0 ELSE TextLen(parts[Len(parts)])
                                  + TotalLength(SubSeq(parts, 1, Len(parts) - 1))

\* C18: a list or tuple normalizes to its elements' normalizations, the empty
\* ones dropped, joined in order with a blank line (two newlines), but with no
\* separator when more than 20 parts remain and their average length is
\* below 3; when no part remains the result is the empty string.  The call
\* raises exactly when the normalization of an element raises.
C18_ListRule ==
    (nv_pc = "done" /\ nv_value.tag = "list") =>
        LET items == nv_value.items
            failing == {i \in 1..Len(items) : Normalization(items[i]).kind = "raised"}
            kept == SelectSeq([i \in 1..Len(items) |-> AsText(items[i])],
                              LAMBDA t : t # <<>>)
        IN  IF failing # {} THEN nv_outcome.kind = "raised"
            ELSE nv_outcome =
                   TextReturned(IF kept = <<>> THEN <<>>
                                ELSE IF Len(kept) > 20 /\ TotalLength(kept) < 3 * Len(kept)
                                THEN Glue(kept, <<>>)
                                ELSE Glue(kept, <<"\n\n">>))

\* 22 parts of one and two letters: joined with no separator
C18_Witness ==
    /\ nv_pc = "done"
    /\ nv_value = PyList(Repeated(<<PyStr(<<"a">>), PyStr(<<"ab">>)>>, 22))
    /\ nv_outcome = TextReturned([i \in 1..22 |-> IF i % 2 = 1 THEN "a" ELSE "ab"])

\* C19: every plain string is returned unchanged, so the normalizer is
\* idempotent: for every input, normalizing what it returned ends the same
\* way as normalizing the input.
C19_Idempotent ==
    nv_pc = "done" =>
        /\ nv_value.tag = "str" => nv_outcome = TextReturned(nv_value.text)
        /\ nv_again = nv_outcome

\* a JSON text comes back, and comes back again
C19_Witness ==
    /\ nv_pc = "done"
    /\ nv_value = PyDict(<<"id">>, <<PyStr(<<"abc">>)>>)
    /\ nv_outcome = TextReturned(<<"{", "\"", "id", "\"", ": ", "\"", "abc", "\"", "}">>)
    /\ nv_again = nv_outcome

-----------------------------------------------------------------------------
(* Claims about the cost estimate *)

\* the estimate the claim gives for a text of n characters
TokensFor(n) == IF n = 0 THEN 0 ELSE IF n < 8 THEN 1 ELSE n \div 4

\* the explanation shown below the SQL block of a successful ui message
ExplanationOf(m) ==
    SubSeq(m.content, Len(<<"Results shown above.", NL2, Fence, "sql", NL>>) + Len(m.sql)
                          + Len(<<NL, Fence, NL2>>) + 1,
           Len(m.content))

\* the instructions the agent was called with in the latest turn
InstructionsSent ==
    IF agent_calls = 1 THEN <<SqlInstruction(entry, prompt)>>
    ELSE <<SqlInstruction(entry, prompt), ExplainInstruction(sql_to_run)>>

\* the normalized agent responses of the latest turn
ResponsesReceived ==
    IF agent_calls = 1 THEN <<sql_text_full[1]>>
    ELSE <<sql_text_full[1], ExplanationOf(LastMessage)>>

RECURSIVE TokensOfAll(_)
TokensOfAll(texts) ==
    IF texts = <<>> THEN 0
    ELSE TokensFor(TextLen(texts[Len(texts)])) + TokensOfAll(SubSeq(texts, 1, Len(texts) - 1))

\* a text of n characters, in runs of four
RunOf(n) == [i \in 1..(n \div 4) |-> "cccc"] \o [i \in 1..(n % 4) |-> "c"]

\* the estimates and the price the claim spells out: nothing for a missing or
\* empty text, 1 for 1 to 7 characters, 100 for 400 characters, and 0.0003
\* dollars for 100 input tokens
EstimateExamples ==
    /\ EstimateTokens(<<>>) = 0
    /\ \A n \in 1..7 : EstimateTokens(RunOf(n)) = 1
    /\ \A n \in {8, 11, 12, 399, 400} : EstimateTokens(RunOf(n)) = TokensFor(n)
    /\ EstimateTokens(RunOf(400)) = 100
    /\ LlmCost(<<RunOf(400)>>, <<RunOf(400)>>) =
          [input_tokens |-> 100, output_tokens |-> 100, input_cost |-> 300,
           output_cost |-> 1500]

\* C20: the estimate of a text is 0 when it is empty or missing, else the
\* integer part of a quarter of its length but at least 1; a turn's llm_cost
\* has input_tokens equal to the sum of the estimates of every instruction
\* sent to the agent in that turn and output_tokens equal to the sum of the
\* estimates of every normalized agent response of that turn, priced at
\* 0.003 per 1000 input tokens and 0.015 per 1000 output tokens, that is 3
\* and 15 millionths of a dollar per token.
C20_CostEstimate ==
    /\ EstimateExamples
    /\ (TurnEnded /\ messages # <<>> /\ "llm_cost" \in DOMAIN LastMessage) =>
        /\ agent_calls \in {1, 2}
        /\ LastMessage.llm_cost.input_tokens = TokensOfAll(InstructionsSent)
        /\ LastMessage.llm_cost.output_tokens = TokensOfAll(ResponsesReceived)
        /\ LastMessage.llm_cost.input_cost = 3 * LastMessage.llm_cost.input_tokens
        /\ LastMessage.llm_cost.output_cost = 15 * LastMessage.llm_cost.output_tokens

\* two agent calls: the SQL and a one-letter explanation
C20_Witness ==
    /\ TurnEnded
    /\ entry = "ui"
    /\ agent_calls = 2
    /\ prompt = <<"t", "o", "p">>
    /\ sql_text_full = <<FencedReply>>
    /\ "llm_cost" \in DOMAIN LastMessage
    /\ ExplanationOf(LastMessage) = <<"x">>
    /\ LastMessage.llm_cost.output_tokens = 5

-----------------------------------------------------------------------------
(* Claims about the catalog tools *)

\* the entries of a get_table response, storage columns before partition keys
EntriesInOrder(res) == res.Columns \o res.PartitionKeys

EntryNames(entries) == [i \in 1..Len(entries) |-> entries[i].Name]

\* C21: get_athena_table_schema returns a mapping whose keys are exactly the
\* storage column names and the partition key names of the table, each key
\* once; a name is mapped to the type of its last occurrence in the order
\* storage columns, then partition keys.
C21_SchemaMerged ==
    (cat_pc = "returned" /\ cat_fn = "get_athena_table_schema")
        => LET entries == EntriesInOrder(cat_table)
               names == EntryNames(entries)
               schema == cat_outcome.value
           IN  /\ RecordKeySet(schema) = {names[i] : i \in 1..Len(names)}
               /\ Len(schema) = Cardinality(RecordKeySet(schema))
               /\ \A i \in 1..Len(names) :
                     Field(schema, names[i]) = entries[LastIndex(names, names[i])].Type

\* C21 witness: "id" occurs twice among the storage columns and once more among
\* the partition keys with another type; the returned type is the partition's.
C21_Witness ==
    /\ cat_pc = "returned"
    /\ cat_fn = "get_athena_table_schema"
    /\ cat_table.Columns = <<[Name |-> "id", Type |-> "string"],
                             [Name |-> "id", Type |-> "string"]>>
    /\ cat_table.PartitionKeys = <<[Name |-> "id", Type |-> "bigint"],
                                   [Name |-> "dt", Type |-> "string"]>>
    /\ cat_outcome.value = <<[key |-> "id", value |-> "bigint"],
                             [key |-> "dt", value |-> "string"]>>

RECURSIVE FlatNames(_)
FlatNames(pages) ==
    IF pages = <<>> THEN <<>> ELSE Head(pages) \o FlatNames(Tail(pages))

\* C22 (as stated): list_athena_tables raises the configuration error before
\* any client lookup or remote request when neither the database argument nor
\* ATHENA_DATABASE gives a database; when the catalog service fails during the
\* listing it raises the error kind get_athena_table_schema raises for the same
\* failure; otherwise it returns the table names of all pages in service order.
C22_Original ==
    (cat_fn = "list_athena_tables" /\ cat_pc # "idle")
        => /\ ~Truthy(ResolveDatabase(environ, cat_db))
                => /\ cat_pc = "raised"
                   /\ cat_outcome.exc = "ValueError"
                   /\ cat_lookups = 0
                   /\ cat_remote = 0
           /\ (cat_pc = "raised" /\ cat_failed # <<>>)
                => cat_outcome.exc = GetTableFailure(cat_failed[1]).exc
           /\ cat_pc = "returned"
                => cat_outcome.value = FlatNames(cat_pages)

-----------------------------------------------------------------------------
(* Claims about the order of the stages of a turn *)

\* the stage changes a turn may make; the chart and the formatting of the
\* answer belong to the step that ends the query stage (or the explanation)
StageOrder ==
    { <<"awaiting_input", "generating_sql">>,
      <<"generating_sql", "running_query">>,
      <<"running_query", "explaining">>,
      <<"generating_sql", "awaiting_input">>,
      <<"running_query", "awaiting_input">>,
      <<"explaining", "awaiting_input">> }

\* C23 (as stated): within a turn the stages are passed only in the order awaiting_input,
\* generating_sql, running_query, (chart), formatting, done.  The query is
\* submitted only after the agent's response has been normalized and a
\* non-empty SQL extracted from it; the SQL submitted is the extracted SQL and
\* is the sql of the assistant message; a chart exists only after the query
\* has succeeded; and a turn that ended in the error state ran no stage after
\* the one that failed: no query after a failed SQL stage, no explanation after
\* a failed query, and the error message holds no sql, table, chart or cost.
C23_Original ==
    /\ [][t_pc' # t_pc => <<t_pc, t_pc'>> \in StageOrder]_vars
    /\ []((t_pc \in {"running_query", "explaining"} \/ query_calls > 0)
            => /\ sql_text_full # <<>>
               /\ sql_to_run # <<>>
               /\ sql_to_run = ExtractSql(sql_text_full[1])
               /\ agent_calls >= 1)
    /\ [](query_calls > 0 => query_calls = 1 /\ query_sql = sql_to_run)
    /\ [](query_calls = 0 => query_sql = <<>> /\ chart_spec = <<>> /\ res_table = NoTable)
    /\ [](chart_spec # <<>>
            => /\ query_holder.done
               /\ query_holder.error = <<>>
               /\ query_raised = <<>>
               /\ query_calls = 1)
    /\ []((TurnEnded /\ DOMAIN LastMessage \cap ArtifactFields # {})
            => /\ LastMessage.sql = query_sql
               /\ query_calls = 1
               /\ query_raised = <<>>)
    /\ []((TurnEnded /\ query_calls = 0)
            => IsErrorMessage(LastMessage) /\ agent_calls = 1)
    /\ []((TurnEnded /\ query_raised # <<>>)
            => IsErrorMessage(LastMessage) /\ agent_calls = 1 /\ query_calls = 1)
    /\ []((TurnEnded /\ IsErrorMessage(LastMessage))
            => /\ worker = NoWorker
               /\ chart_spec = <<>>
               /\ agent_calls = 2 => (query_calls = 1 /\ query_raised = <<>>))

-----------------------------------------------------------------------------
(* Claims about the worker threads of src/ui.py *)

\* the holder of a stage and the stage of the turn that waits for it
HolderOf(stage) ==
    IF stage = "sql" THEN sql_holder
    ELSE IF stage = "query" THEN query_holder ELSE explain_holder

WaitingStage(stage) ==
    IF stage = "sql" THEN "generating_sql"
    ELSE IF stage = "query" THEN "running_query" ELSE "explaining"

WorkerStages == {"sql", "query", "explain"}

\* exactly one of result and error has been written
WrittenOnce(holder) == (holder.result # <<>>) # (holder.error # <<>>)

\* C24: in src/ui.py, for each of the three stages, the main thread leaves its
\* wait loop (and reads result and error) only when the worker has set done;
\* the worker has written result or error when it sets done, sets done without
\* touching them, and writes nothing afterwards (a finished holder only ever
\* gives way to the fresh holder of a later stage run); whether the worker's
\* call returns or raises, the worker goes on to its finally clause, which it
\* can always execute and which sets done, the flag the wait loop tests; and a
\* worker is started only when no worker is running, so at most one runs at
\* any moment.
C24_WorkerHandshake ==
    /\ [][\A st \in WorkerStages :
            (entry = "ui" /\ t_pc = WaitingStage(st) /\ t_pc' # t_pc)
                => HolderOf(st).done /\ worker = NoWorker]_vars
    /\ [](\A st \in WorkerStages :
            /\ HolderOf(st).done => WrittenOnce(HolderOf(st)) /\ worker.stage # st
            /\ worker = [stage |-> st, pc |-> "finally"]
                  => WrittenOnce(HolderOf(st)) /\ ~HolderOf(st).done
            /\ worker = [stage |-> st, pc |-> "call"]
                  => HolderOf(st) = FreshHolder /\ t_pc = WaitingStage(st))
    /\ [][/\ (sql_holder.done /\ sql_holder' # sql_holder) => sql_holder' = FreshHolder
          /\ (query_holder.done /\ query_holder' # query_holder)
                => query_holder' = FreshHolder
          /\ (explain_holder.done /\ explain_holder' # explain_holder)
                => explain_holder' = FreshHolder
          /\ (~sql_holder.done /\ sql_holder'.done)
                => sql_holder' = [sql_holder EXCEPT !.done = TRUE]
          /\ (~query_holder.done /\ query_holder'.done)
                => query_holder' = [query_holder EXCEPT !.done = TRUE]
          /\ (~explain_holder.done /\ explain_holder'.done)
                => explain_holder' = [explain_holder EXCEPT !.done = TRUE]]_vars
    /\ [][(worker' # worker /\ worker' # NoWorker /\ worker'.pc = "call")
            => worker = NoWorker]_vars
    /\ [][\A st \in WorkerStages :
            (worker = [stage |-> st, pc |-> "call"] /\ worker' # worker)
                => worker' = [stage |-> st, pc |-> "finally"]]_vars
    /\ [][/\ (worker = [stage |-> "sql", pc |-> "finally"] /\ worker' # worker)
                => sql_holder'.done /\ worker' = NoWorker
          /\ (worker = [stage |-> "query", pc |-> "finally"] /\ worker' # worker)
                => query_holder'.done /\ worker' = NoWorker
          /\ (worker = [stage |-> "explain", pc |-> "finally"] /\ worker' # worker)
                => explain_holder'.done /\ worker' = NoWorker]_vars
    /\ [](/\ worker = [stage |-> "sql", pc |-> "finally"] => ENABLED WorkerSqlFinally
          /\ worker = [stage |-> "query", pc |-> "finally"] => ENABLED WorkerQueryFinally
          /\ worker = [stage |-> "explain", pc |-> "finally"]
                => ENABLED WorkerExplainFinally)

\* C24 witness: all three workers of one turn have run, one after the other;
\* the explanation worker has stored its result and set done, and the main
\* thread is about to read it.
C24_Witness ==
    /\ entry = "ui"
    /\ t_pc = "explaining"
    /\ worker = NoWorker
    /\ sql_holder.done
    /\ query_holder.done
    /\ explain_holder = [done |-> TRUE, result |-> <<PyStr(<<"x">>)>>, error |-> <<>>]
    /\ agent_calls = 2
    /\ query_calls = 1

-----------------------------------------------------------------------------
(* Claims about retries *)

\* C25: no remote call is retried.  In one turn the agent is invoked at most
\* once for the SQL and at most once for the explanation (so never a second
\* time before the explanation stage), and run_athena_query at most once; one
\* run_athena_query call submits start_query_execution exactly once before it
\* waits, and it has submitted exactly once when it ends after a failed start,
\* a FAILED or CANCELLED state, a timeout or a failed status or result request.
C25_NoRetry ==
    /\ query_calls <= 1
    /\ agent_calls <= 2
    /\ t_pc \in {"generating_sql", "running_query"} => agent_calls <= 1
    /\ agent_calls = 2
          => /\ entry = "ui"
             /\ settings.explain_mode
             /\ query_calls = 1
             /\ t_pc \in {"explaining", "awaiting_input"}
    /\ query_raised # <<>> => query_calls = 1
    /\ q_started <= 1
    /\ q_lookups <= 1
    /\ q_pc \in {"poll", "deadline", "sleep", "waited", "fetch", "returned"}
          => q_started = 1
    /\ q_pc \in {"idle", "clients", "submit"} => q_started = 0
    /\ (q_outcome.msg # <<>> /\ q_outcome.msg[1] = "Failed to start query: ")
          => q_pc = "raised" /\ q_started = 1
    /\ w_state # Unset => q_started = 1
    /\ (q_pc = "raised" /\ w_state \in {"FAILED", "CANCELLED"}) => q_started = 1
    /\ q_outcome.exc = "TimeoutError" => q_pc = "raised" /\ q_started = 1

\* C25 witness: the execution was polled more than once, ended CANCELLED, and
\* the call raised with the one submission it had made.
C25_Witness ==
    /\ q_pc = "raised"
    /\ w_state = "CANCELLED"
    /\ elapsed = 0
    /\ q_started = 1
    /\ q_lookups = 1
    /\ q_outcome.exc = "RuntimeError"
    /\ w_reason = "syntax error"


\* C26: over any sequence of query-client calls in one process the client cache
\* holds at most one client pair per region: a pair is built for a region exactly
\* when the region enters the cache, a later call for a cached region builds
\* nothing, no entry is ever removed or replaced, and a call with no resolvable
\* region raises RuntimeError and leaves the cache as it was.
C26_ClientCache ==
    /\ [](/\ client_cache \subseteq AllRegions
          /\ \A r \in AllRegions :
                creations[r] = (IF r \in client_cache THEN 1 ELSE 0))
    /\ [][/\ client_cache \subseteq client_cache'
          /\ \A r \in AllRegions : creations'[r] >= creations[r]]_vars
    /\ [][(q_pc = "clients" /\ q_pc' # "clients")
            => LET region == ResolveRegion(environ, q_region)
               IN  IF Truthy(region)
                   THEN /\ q_pc' = "submit"
                        /\ client_cache' = client_cache \cup {region}
                        /\ (region \in client_cache
                              => client_cache' = client_cache /\ creations' = creations)
                        /\ (region \notin client_cache
                              => creations' = [creations EXCEPT ![region] = 1])
                   ELSE /\ q_pc' = "raised"
                        /\ q_outcome' = Raised("RuntimeError",
                              <<"AWS region not configured. Set AWS_REGION or AWS_DEFAULT_REGION.">>)
                        /\ client_cache' = client_cache
                        /\ creations' = creations]_vars

\* C26 witness: a call without a resolvable region raised while the cache held
\* the pair an earlier call had built for the region it was given.
C26_Witness ==
    /\ q_pc = "raised"
    /\ q_lookups = 1
    /\ q_region = Unset
    /\ q_outcome.exc = "RuntimeError"
    /\ client_cache = {"eu-west-1"}
    /\ creations["eu-west-1"] = 1

-----------------------------------------------------------------------------
(* Claims about the settings *)

\* the setting as a downstream call sees it: an empty value is no value
\* (`region or None`, `os.getenv(...) or None`)
EffectiveValue(v) == IF Truthy(v) THEN v ELSE Unset

\* C27: after a sync the environment agrees with the effective settings:
\* AWS_REGION and AWS_DEFAULT_REGION are both the effective region, each of
\* ATHENA_DATABASE, ATHENA_WORKGROUP, ATHENA_CATALOG and ATHENA_OUTPUT is the
\* effective value when that value is non-empty, and a setting whose effective
\* value is empty or absent is not in the environment, whatever the variable
\* held before the sync.
C27_EnvironmentSynced ==
    cfg_pc = "synced"
        => /\ cfg_environ["AWS_REGION"] = EffectiveValue(cfg_values.region)
           /\ cfg_environ["AWS_DEFAULT_REGION"] = EffectiveValue(cfg_values.region)
           /\ \A i \in 3..Len(SyncCalls) :
                 LET value == cfg_values[SyncCalls[i].key]
                     name == SyncCalls[i].name
                 IN  /\ (value # Unset /\ value # "") => cfg_environ[name] = value
                     /\ (value = Unset \/ value = "") => cfg_environ[name] = Unset

\* C27 witness: a run of the script with the workgroup field emptied removed the
\* workgroup the environment held before, and kept the region in both variables.
C27_Witness ==
    /\ cfg_pc = "synced"
    /\ cfg_entry = "ui"
    /\ cfg_before["ATHENA_WORKGROUP"] = "wg"
    /\ cfg_values.workgroup = ""
    /\ cfg_environ["ATHENA_WORKGROUP"] = Unset
    /\ cfg_values.region = "eu-west-1"
    /\ cfg_before["AWS_REGION"] = "us-east-1"
    /\ cfg_environ["AWS_REGION"] = "eu-west-1"
    /\ cfg_environ["AWS_DEFAULT_REGION"] = "eu-west-1"

-----------------------------------------------------------------------------
(* Claims about the roles in the history *)

\* the role the i-th message of an alternating history has
RoleAt(i) == IF i % 2 = 1 THEN "user" ELSE "assistant"

\* C28: after any sequence of prompts and resets the roles of the history
\* alternate user, assistant, user, assistant, ..., and between two turns its
\* length is even: a prompt handled with a database configured appends exactly
\* one user message and, when the turn ends (with a response or with an error),
\* exactly one assistant message; a prompt rejected because no database is
\* configured appends nothing.
C28_HistoryAlternates ==
    /\ [](/\ \A i \in 1..Len(messages) : messages[i].role = RoleAt(i)
          /\ (t_pc = "awaiting_input" => Len(messages) % 2 = 0)
          /\ (t_pc # "awaiting_input"
                => Len(messages) % 2 = 1 /\ LastMessage = UserMessage(prompt)))
    /\ [][SubmitPrompt
            => IF Truthy(settings.database)
               THEN /\ Len(messages') = Len(messages) + 1
                    /\ IsPrefixOf(messages, messages')
                    /\ messages'[Len(messages')] = UserMessage(prompt')
                    /\ t_pc' # "awaiting_input"
               ELSE /\ messages' = messages
                    /\ t_pc' = "awaiting_input"
                    /\ st_error' = <<NoDatabaseText>>]_vars
    /\ [][(t_pc # "awaiting_input" /\ t_pc' = "awaiting_input")
            => /\ Len(messages') = Len(messages) + 1
               /\ IsPrefixOf(messages, messages')
               /\ messages'[Len(messages')].role = "assistant"]_vars
    /\ [][(t_pc # "awaiting_input" /\ t_pc' # "awaiting_input")
            => messages' = messages]_vars

\* C28 witness: a turn ended with an error, the database field was emptied, and
\* the next prompt was rejected: the history still holds the two messages.
C28_Witness ==
    /\ entry = "ui"
    /\ t_pc = "awaiting_input"
    /\ ~Truthy(settings.database)
    /\ st_error = <<NoDatabaseText>>
    /\ Len(messages) = 2
    /\ messages[1].role = "user"
    /\ IsErrorMessage(messages[2])

-----------------------------------------------------------------------------
(* Claims about the precedence of the fenced block *)

\* nothing but whitespace, or nothing at all
BlankText(s) == \A k \in 1..Len(s) : IsSpace(s[k])

\* the model output of the latest turn holds a block without a statement
BlankBlockReply ==
    /\ sql_text_full # <<>>
    /\ HasFencedBlock(sql_text_full[1])
    /\ BlankText(FirstBlockInner(sql_text_full[1]))

\* C29: when the text holds a fenced sql block the extractor answers from the
\* first block and never from the select search, also when the inner text of
\* the block is empty or whitespace: the result is then the empty text, and the
\* turn ends with the extraction error without a query, although a select
\* statement may stand outside the block.
C29_BlockBeforeSelect ==
    /\ (ex_pc = "done" /\ HasFencedBlock(raw_text))
          => /\ IsTrimOf(sql_out, FirstBlockInner(raw_text))
             /\ (BlankText(FirstBlockInner(raw_text)) => sql_out = <<>>)
    /\ (sql_text_full # <<>> /\ HasFencedBlock(sql_text_full[1]))
          => IsTrimOf(sql_to_run, FirstBlockInner(sql_text_full[1]))
    /\ BlankBlockReply
          => /\ sql_to_run = <<>>
             /\ t_pc = "awaiting_input"
             /\ agent_calls = 1
             /\ query_calls = 0
             /\ messages # <<>>
             /\ LastMessage = ErrorMessage(ExtractFailure)

\* C29 witness: the agent answered an empty block followed by a select
\* statement, and the turn ended with the extraction error.
C29_Witness ==
    /\ entry = "ui"
    /\ BlankBlockReply
    /\ HasSelectKeyword(sql_text_full[1])
    /\ sql_to_run = <<>>
    /\ LastMessage = ErrorMessage(ExtractFailure)

-----------------------------------------------------------------------------
(* Claims about the order of poll and deadline test *)

\* the steps a call of _wait_for_query can take from one position to the next
WaitOrder ==
    { <<"idle", "poll">>, <<"poll", "waited">>, <<"poll", "deadline">>,
      <<"poll", "raised">>, <<"deadline", "raised">>, <<"deadline", "sleep">>,
      <<"sleep", "poll">>, <<"waited", "idle">>, <<"raised", "idle">> }

\* C30: every iteration of _wait_for_query asks for the status first and tests
\* the deadline second: the status is asked for at least once, also with
\* timeout_s = 0; a terminal state seen by a poll is returned, also when the
\* deadline had passed at that poll; TimeoutError is raised only by the deadline
\* test that directly follows a poll that saw a non-terminal state, and only
\* when more than timeout_s has elapsed; and every call ends, by a return or by
\* an exception, as long as its statements are executed.
C30_PollBeforeDeadline ==
    /\ [][q_pc' # q_pc => <<q_pc, q_pc'>> \in WaitOrder]_vars
    /\ [](/\ q_pc \in {"deadline", "sleep"} => w_state \in {"QUEUED", "RUNNING"}
          /\ q_pc = "waited" => w_state \in TerminalStates
          /\ q_outcome.exc = "TimeoutError"
                => q_pc = "raised" /\ w_checked_late /\ w_state \in {"QUEUED", "RUNNING"})
    /\ [][(q_pc = "poll" /\ w_state' \in TerminalStates)
            => q_pc' = "waited" /\ q_outcome' = NoOutcome]_vars
    /\ [][(q_outcome'.exc = "TimeoutError" /\ q_outcome.exc # "TimeoutError")
            => /\ q_pc = "deadline"
               /\ elapsed > w_timeout
               /\ w_state \in {"QUEUED", "RUNNING"}]_vars
    /\ [][(q_pc = "deadline" /\ q_pc' = "sleep") => elapsed <= w_timeout]_vars
    /\ (q_pc = "poll") ~> (q_pc = "waited" \/ q_pc = "raised")

\* C30 witness: called with timeout_s = 0, the wait returned the terminal state
\* of a poll that came back after the deadline.
C30_Witness ==
    /\ q_pc = "waited"
    /\ w_timeout = 0
    /\ w_poll_late
    /\ w_state = "SUCCEEDED"
    /\ ~w_checked_late

====
